---- MODULE Spec2Model ----
(***************************************************************************)
(* A model of the EffectGraph particle engine: the fixed-capacity          *)
(* ParticlePool, the Emitter's rate accumulator, the ParticleSystem, the   *)
(* CompositeEffect orchestrator, the seeded EffectSimulator and the        *)
(* renderEffectToCanvas entry point with its resource limits.              *)
(*                                                                         *)
(* Units.  Times (dt, elapsed, lifetimes, delays, durations) are integer   *)
(* milliseconds.  A particle's normalised life is the exact rational       *)
(* n / d.  Object identity of a pooled particle record is the index of     *)
(* the createParticle call that made it.                                   *)
(***************************************************************************)
EXTENDS Integers, Sequences, FiniteSets, TLC

VARIABLES
    pp,       \* the ParticlePool under test (pool, active, capacity, records)
    ret,      \* what the last ParticlePool.acquire() returned
    hist,     \* the last pool call, its argument, and whether dispose() was called
    em,       \* the Emitter under test (rate, accumulator)
    emHist,   \* its calls so far: number, sum of dt, sum of returned counts
    ce,       \* the CompositeEffect under test
    scene,    \* the composites added to the parent of its root group
    ceHist,   \* what its update() calls did: events dispatched, children made
    sim,      \* the EffectSimulator instances under test
    simHist,  \* the seed, the dt sequence and how many ticks each instance has had
    ps,       \* the ParticleSystem instances under test
    psHist,   \* their definition, the dt of every frame and what the last frame did
    api       \* a call of the public API (renderEffectToCanvas, validateEffectSpec,
              \* Curve.evaluate, SeededRNG): its arguments and its outcome

poolVars == <<pp, ret, hist>>
emitterVars == <<em, emHist>>
compositeVars == <<ce, scene, ceHist>>
simVars == <<sim, simHist>>
systemVars == <<ps, psHist>>
apiVars == <<api>>
vars == <<pp, ret, hist, em, emHist, ce, scene, ceHist, sim, simHist, ps, psHist, api>>

(***************************************************************************)
(* Bounds of the model.                                                    *)
(***************************************************************************)
MaxCapacity == 2
MaxRecords == 4
MaxCalls == 100
MaxElapsed == 1000
MaxCompositeTime == 1600
MaxTicks == 4
MaxFrames == 10
MaxSystemFrames == 3
MaxDraws == 3

(***************************************************************************)
(* ParticlePool (src/core/effect.ts, particlePool part).                   *)
(***************************************************************************)
null == 0
OneSecond == 1000

Zero3 == <<0, 0, 0>>
\* a customData component is a number in [0, 1), kept as the 32-bit word u
\* (its 16-bit halves) of u / 2^32
Zero4 == <<[h |-> 0, l |-> 0], [h |-> 0, l |-> 0], [h |-> 0, l |-> 0], [h |-> 0, l |-> 0]>>
Rat(n, d) == [n |-> n, d |-> d]

\* Body applied to the value of e, which is computed once
LetIn(e, Body(_)) == CHOOSE r \in {Body(x) : x \in {e}} : TRUE

LengthSq(v) == v[1] * v[1] + v[2] * v[2] + v[3] * v[3]

\* Math.sqrt of a squared length <= 1, in thousandths
Sqrt(n) ==
    LetIn(n, LAMBDA m : CHOOSE k \in 0..1000 : k * k <= m /\ m < (k + 1) * (k + 1))

createParticle ==
    [position |-> Zero3, velocity |-> Zero3, life |-> Rat(0, 1),
     alive |-> FALSE, lifetime |-> OneSecond, customData |-> Zero4]

RECURSIVE Preallocate(_)
Preallocate(n) ==
    IF n = 0 THEN <<>> ELSE Append(Preallocate(n - 1), createParticle)

\* new ParticlePool(capacity): capacity records, all in the free list
NewPool(capacity) ==
    [pool |-> [i \in 1..capacity |-> i],
     active |-> <<>>,
     capacity |-> capacity,
     store |-> Preallocate(capacity)]

InSeq(x, s) == \E i \in 1..Len(s) : s[i] = x
RemoveFrom(s, x) == SelectSeq(s, LAMBDA y : y # x)

activeCount(P) == Len(P.active)
availableCount(P) == Len(P.pool)
totalCapacity(P) == P.capacity

\* the state reset acquire() applies to the record it hands out
ResetAcquired(r) ==
    [r EXCEPT !.position = Zero3, !.velocity = Zero3, !.life = Rat(1, 1),
              !.alive = TRUE, !.lifetime = OneSecond, !.customData = Zero4]

\* the pop from the free list: the record released last
TakeFromPoolFirst(P) == [id |-> Head(P.pool), rest |-> Tail(P.pool)]
TakeFromPool(P) ==
    [id |-> P.pool[Len(P.pool)], rest |-> SubSeq(P.pool, 1, Len(P.pool) - 1)]

\* acquire(): the pool after the call and the record returned (null: none)
acquire(P) ==
    IF Len(P.pool) > 0
    THEN LET t == TakeFromPool(P) IN
         [P |-> [P EXCEPT !.pool = t.rest,
                          !.store[t.id] = ResetAcquired(@),
                          !.active = Append(@, t.id)],
          particle |-> t.id]
    ELSE IF Len(P.active) < P.capacity
    THEN LET id == Len(P.store) + 1 IN
         [P |-> [P EXCEPT !.store = Append(@, ResetAcquired(createParticle)),
                          !.active = Append(@, id)],
          particle |-> id]
    ELSE [P |-> P, particle |-> null]

\* the fields release() and releaseAll() write on a record
ZeroReleased(r) ==
    [r EXCEPT !.alive = FALSE, !.position = Zero3, !.velocity = Zero3,
              !.customData = Zero4]

ReturnToPoolDropped(P, p) == P.pool
ReturnToPool(P, p) == Append(P.pool, p)

releaseUnchecked(P, p) ==
    [P EXCEPT !.active = RemoveFrom(@, p),
              !.store = [i \in 1..Len(@) |-> IF i = p THEN ZeroReleased(@[i]) ELSE @[i]],
              !.pool = ReturnToPool(P, p)]
release(P, p) ==
    IF ~InSeq(p, P.active)
    THEN P
    ELSE [P EXCEPT !.active = RemoveFrom(@, p),
                   !.store[p] = ZeroReleased(@),
                   !.pool = ReturnToPool(P, p)]

\* releaseAll(): every active record, in the Set's insertion order
releaseAll(P) ==
    [P EXCEPT !.store = [i \in 1..Len(P.store) |->
                            IF InSeq(i, P.active) THEN ZeroReleased(P.store[i])
                            ELSE P.store[i]],
              !.pool = P.pool \o P.active,
              !.active = <<>>]

clear(P) == releaseAll(P)

dispose(P) == [P EXCEPT !.active = <<>>, !.pool = <<>>]

initParticle(P, p, position, velocity, lifetime) ==
    [P EXCEPT !.store[p] = [@ EXCEPT !.position = position,
                                     !.velocity = velocity,
                                     !.life = Rat(1, 1),
                                     !.alive = TRUE,
                                     !.lifetime = lifetime]]

(***************************************************************************)
(* Emitter (src/core/Emitter.js).  A rate is particles per second and dt   *)
(* is milliseconds, so the accumulator is kept in thousandths of a         *)
(* particle: rate * dt is exact and floor(accumulator) is accumulator      *)
(* \div 1000.                                                              *)
(***************************************************************************)
DefaultRateValue == 10
DefaultRate == [type |-> "constant", value |-> DefaultRateValue, min |-> 0, max |-> 0]
ConstantRate(r) == [type |-> "constant", value |-> r, min |-> 0, max |-> 0]
NoRate == [type |-> "none", value |-> 0, min |-> 0, max |-> 0]

\* new Emitter(rate): rate || { type: 'constant', value: 10 }
NewEmitter(rate) ==
    [rate |-> IF rate = NoRate THEN DefaultRate ELSE rate, accumulator |-> 0]

\* sampleRate(); u stands for the Math.random() draw, in thousandths
sampleRate(e, u) ==
    IF e.rate.type = "constant" THEN e.rate.value
    ELSE IF e.rate.type = "uniform"
    THEN e.rate.min + (u * (e.rate.max - e.rate.min)) \div 1000
    ELSE DefaultRateValue

Floor(acc) == acc \div 1000

CarryDropped(acc, count) == 0
Carry(acc, count) == acc - count * 1000

\* getEmissionCount(deltaTime): the emitter after the call and the count
getEmissionCount(e, deltaTime, u) ==
    LET acc == e.accumulator + sampleRate(e, u) * deltaTime
        count == Floor(acc)
    IN  [e |-> [e EXCEPT !.accumulator = Carry(acc, count)], count |-> count]

NoEmitter == NewEmitter(NoRate)
NoEmitterHist == [calls |-> 0, elapsed |-> 0, total |-> 0]

(***************************************************************************)
(* Particle and ParticleSystem (the three.js particle system that a        *)
(* CompositeEffect layer owns).  Velocities are in thousandths of a unit   *)
(* per second and positions in millionths of a unit, so that               *)
(* position += velocity * dt is exact with dt in milliseconds.             *)
(***************************************************************************)
Add3(a, b) == <<a[1] + b[1], a[2] + b[2], a[3] + b[3]>>
Scale3(a, k) == <<a[1] * k, a[2] * k, a[3] * k>>

\* new Particle()
NewParticle ==
    [alive |-> FALSE, age |-> 0, lifetime |-> OneSecond,
     position |-> Zero3, velocity |-> Zero3, acceleration |-> Zero3]

\* sampleValue(distribution) for a 'constant' distribution and for a 'uniform'
\* one over numbers; u stands for the Math.random() draw, in thousandths
sampleValue(distribution, u) ==
    IF distribution.type = "constant" THEN distribution.value
    ELSE IF distribution.type = "uniform"
    THEN distribution.min + (u * (distribution.max - distribution.min)) \div 1000
    ELSE distribution.value

\* createEmitter(definition) for the 'point' shape and for a shape the switch
\* does not know: its default case warns and builds a PointEmitter as well
createEmitter(definition) ==
    [shape |-> "point",
     rate |-> NewEmitter(definition.rate).rate,
     accumulator |-> 0,
     position |-> Zero3]

\* PointEmitter.getPoint()
getPoint(e) == e.position

\* Particle.init(definition, emitterShape); u is the draw of the lifetime
\* (the initial velocities used here are constant)
ParticleInit(definition, emitterShape, u) ==
    [alive |-> TRUE, age |-> 0,
     lifetime |-> sampleValue(definition.particles.lifetime, u),
     position |-> getPoint(emitterShape),
     velocity |-> sampleValue(definition.particles.initialVelocity, 0),
     acceleration |-> Zero3]

\* what a call draws from Math.random(): one draw for the rate and one for
\* each particle slot that is initialised
NoDraws(sys) == [rate |-> 0, lifetime |-> [i \in 1..Len(sys.particles) |-> 0]]

\* new ParticleSystem(definition)
NewParticleSystem(definition) ==
    [definition |-> definition,
     particles |-> [i \in 1..definition.particles.maxCount |-> NewParticle],
     emitter |-> createEmitter(definition.emitter),
     time |-> 0,
     disposed |-> FALSE]

\* emitParticles(count): the first count dead slots, in index order
SlotFreeAlways(q) == TRUE
SlotFree(q) == ~q.alive

RECURSIVE emitParticles(_, _, _, _, _)
emitParticles(sys, count, i, emitted, draws) ==
    IF i > Len(sys.particles) \/ emitted >= count THEN sys
    ELSE IF SlotFree(sys.particles[i])
    THEN emitParticles(
             [sys EXCEPT !.particles[i] =
                 ParticleInit(sys.definition, sys.emitter, draws.lifetime[i])],
             count, i + 1, emitted + 1, draws)
    ELSE emitParticles(sys, count, i + 1, emitted, draws)

\* GravityForce.calculate(particle) and DragForce.calculate(particle), for a
\* particle of mass 1 and a speed of at most 1; strengths and the force are
\* in thousandths
calculate(force, particle) ==
    IF force.type = "gravity" THEN <<0, -force.strength, 0>>
    ELSE IF force.type = "drag"
    THEN LET speed == Sqrt(LengthSq(particle.velocity)) IN
         IF speed < 1 THEN Zero3
         ELSE [k \in 1..3 |->
                  -((force.strength * particle.velocity[k] * speed) \div 1000000)]
    ELSE Zero3

\* velocity.addScaledVector(acceleration, deltaTime)
Integrate(particle, deltaTime) ==
    [particle EXCEPT !.velocity =
        [k \in 1..3 |-> @[k] + (particle.acceleration[k] * deltaTime) \div 1000]]

\* the force loop of updateParticles: every force's calculate(p) divided by
\* the mass is added to the particle's acceleration, in the forces' order
RECURSIVE accumulateForces(_, _, _)
accumulateForces(particle, forces, deltaTime) ==
    IF forces = <<>> THEN particle
    ELSE accumulateForces(
             [particle EXCEPT !.acceleration = Add3(@, calculate(Head(forces), particle))],
             Tail(forces), deltaTime)

\* the force loop and the velocity integration of updateParticles
applyForces(particle, forces, deltaTime) ==
    Integrate(accumulateForces([particle EXCEPT !.acceleration = Zero3],
                               forces, deltaTime),
              deltaTime)

\* one particle's step in updateParticles(deltaTime), with no forces and no
\* over-lifetime curves configured
updateParticle(q, deltaTime) ==
    IF ~q.alive THEN q
    ELSE LET aged == [q EXCEPT !.age = @ + deltaTime] IN
         IF aged.age >= aged.lifetime
         THEN [aged EXCEPT !.alive = FALSE]
         ELSE LET v == applyForces(aged, <<>>, deltaTime).velocity IN
              [aged EXCEPT !.acceleration = Zero3,
                           !.velocity = v,
                           !.position = Add3(@, Scale3(v, deltaTime))]

updateParticles(sys, deltaTime) ==
    [sys EXCEPT !.particles =
        [i \in 1..Len(sys.particles) |-> updateParticle(sys.particles[i], deltaTime)]]

\* the first half of ParticleSystem.update(deltaTime): the clock, the
\* emitter's count and emitParticles
ParticleSystemEmit(sys, deltaTime, draws) ==
    LET timed == [sys EXCEPT !.time = @ + deltaTime]
        g == getEmissionCount(timed.emitter, deltaTime, draws.rate)
        counted == [timed EXCEPT !.emitter = g.e]
    IN  emitParticles(counted, g.count, 1, 0, draws)

\* ParticleSystem.update(deltaTime)
ParticleSystemUpdate(sys, deltaTime, draws) ==
    updateParticles(ParticleSystemEmit(sys, deltaTime, draws), deltaTime)

\* ParticleSystem.dispose()
ParticleSystemDispose(sys) == [sys EXCEPT !.disposed = TRUE]

(***************************************************************************)
(* CompositeEffect (src/core/CompositeEffect.js).  A definition field that *)
(* is absent is 0, "" or the None value of its kind: the constructor's     *)
(* `x || default` treats both alike.  The definitions used here configure  *)
(* no lights.                                                              *)
(***************************************************************************)
NoTime == -1
Infinity == 2147483647
DefaultLifetime == 10000
NoEffect == [kind |-> "none", name |-> "", layers |-> <<>>, timeline |-> <<>>]
NoMovement == [kind |-> "none"]

\* initializeLayers: one layer
NewLayer(layerDef) ==
    [name |-> layerDef.name,
     system |-> NewParticleSystem(layerDef.effect),
     offset |-> Zero3,
     enabled |-> layerDef.enabled # FALSE,
     startDelay |-> IF layerDef.startDelay # 0 THEN layerDef.startDelay ELSE 0,
     duration |-> IF layerDef.duration # 0 THEN layerDef.duration ELSE Infinity,
     startTime |-> NoTime]

\* initializeMovement
NewMovement(movementDef) ==
    [kind |-> "movement",
     type |-> IF movementDef.type # "" THEN movementDef.type ELSE "linear",
     velocity |-> movementDef.velocity,
     acceleration |-> movementDef.acceleration,
     rotationSpeed |-> movementDef.rotationSpeed,
     lifetime |-> IF movementDef.lifetime # 0 THEN movementDef.lifetime
                  ELSE DefaultLifetime,
     onComplete |-> movementDef.onComplete]

\* new CompositeEffect(definition); position and rotation are the root
\* group's, attached says whether the group has a parent
NewCompositeEffect(definition) ==
    [definition |-> definition,
     layers |-> [i \in 1..Len(definition.layers) |-> NewLayer(definition.layers[i])],
     subEmitters |-> <<>>,
     time |-> 0,
     active |-> TRUE,
     timeline |-> definition.timeline,
     timelineIndex |-> 0,
     movement |-> IF definition.movement.kind # "none"
                  THEN NewMovement(definition.movement) ELSE NoMovement,
     position |-> Zero3,
     rotation |-> Zero3,
     groupChildren |-> Len(definition.layers),
     attached |-> FALSE]

LayerPending(l) == l.startTime = NoTime
LayerActive(l) == l.startTime # NoTime /\ l.enabled
LayerStopped(l) == l.startTime # NoTime /\ ~l.enabled

\* updateMovement for the 'linear' type; the 'curve' type without a curve
\* and the 'homing' type without a target only rotate
updateMovement(c, deltaTime) ==
    LET mov == c.movement
        v == IF mov.type = "linear"
             THEN Add3(mov.velocity, Scale3(mov.acceleration, deltaTime))
             ELSE mov.velocity
        pos == IF mov.type = "linear"
               THEN Add3(c.position, Scale3(v, deltaTime))
               ELSE c.position
        rot == IF mov.rotationSpeed # Zero3
               THEN Add3(c.rotation, Scale3(mov.rotationSpeed, deltaTime))
               ELSE c.rotation
    IN  [c EXCEPT !.movement.velocity = v, !.position = pos, !.rotation = rot]

\* the layer loop's body: start check, stop check, system.update
StartLayer(l, time) ==
    IF l.startTime = NoTime /\ time >= l.startDelay
    THEN [l EXCEPT !.startTime = time] ELSE l

LayerExpiresLate(l, time) ==
    LET st == StartLayer(l, time) IN
    st.enabled /\ st.startTime # NoTime /\ time - st.startTime > st.duration
LayerExpires(l, time) ==
    LET st == StartLayer(l, time) IN
    st.enabled /\ st.startTime # NoTime /\ time - st.startTime >= st.duration

LayerRunsAlways(l, time) ==
    LET st == StartLayer(l, time) IN
    st.startTime # NoTime /\ ~LayerExpires(l, time)
LayerRuns(l, time) ==
    LET st == StartLayer(l, time) IN
    st.enabled /\ st.startTime # NoTime /\ ~LayerExpires(l, time)

UpdateLayer(l, time, deltaTime) ==
    LET st == StartLayer(l, time) IN
    IF LayerExpires(l, time) THEN [st EXCEPT !.enabled = FALSE]
    ELSE IF LayerRuns(l, time)
    THEN [st EXCEPT !.system = ParticleSystemUpdate(@, deltaTime, NoDraws(@))]
    ELSE st

\* this.layers.find(l => l.name === name): its index, 0 when there is none
FindLayer(c, name) ==
    IF \E i \in 1..Len(c.layers) : c.layers[i].name = name
    THEN CHOOSE i \in 1..Len(c.layers) :
            /\ c.layers[i].name = name
            /\ \A j \in 1..(i - 1) : c.layers[j].name # name
    ELSE 0

\* The state an update() call works on: the composite c, the objects added
\* to the parent scene, the record h of what the call did, and whether a
\* TypeError has been thrown (this.group.parent is null).
\* triggerEvent(event); k is the event's timeline index (0: from onComplete)
triggerEvent(st, event, k) ==
    LET c == st.c
        h == [st.h EXCEPT !.dispatched = IF k = 0 THEN @ ELSE Append(@, k)]
    IN
    IF event.type = "emit"
    THEN IF event.effect.kind # "none"
         THEN LET subEffect == [NewCompositeEffect(event.effect)
                                    EXCEPT !.position = c.position]
                  made == [h EXCEPT !.spawned =
                              Append(@, [effect |-> event.effect.name,
                                         position |-> c.position,
                                         onComplete |-> k = 0])]
              IN  IF ~c.attached
                  THEN [st EXCEPT !.h = made, !.threw = TRUE]
                  ELSE [st EXCEPT
                          !.h = made,
                          !.scene = Append(@, subEffect),
                          !.c.subEmitters =
                              IF event.name # ""
                              THEN Append(SelectSeq(@, LAMBDA e : e.name # event.name),
                                          [name |-> event.name,
                                           child |-> Len(st.scene) + 1])
                              ELSE @]
         ELSE [st EXCEPT !.h = h]
    ELSE IF event.type = "enableLayer"
    THEN LET i == FindLayer(c, event.layerName) IN
         IF i # 0
         THEN [st EXCEPT !.h = [h EXCEPT !.reenabled =
                                    IF i \in h.expired THEN @ \cup {i} ELSE @],
                         !.c.layers[i].enabled = TRUE,
                         !.c.layers[i].startTime = c.time]
         ELSE [st EXCEPT !.h = h]
    ELSE IF event.type = "disableLayer"
    THEN LET i == FindLayer(c, event.layerName) IN
         IF i # 0
         THEN [st EXCEPT !.h = h, !.c.layers[i].enabled = FALSE]
         ELSE [st EXCEPT !.h = h]
    ELSE [st EXCEPT !.h = h]

\* processTimeline()
RECURSIVE processTimeline(_)
processTimeline(st) ==
    IF st.threw \/ st.c.timelineIndex >= Len(st.c.timeline) THEN st
    ELSE LET k == st.c.timelineIndex + 1
             event == st.c.timeline[k]
         IN  IF st.c.time >= event.time
             THEN LetIn(triggerEvent(st, event, k), LAMBDA t :
                      IF t.threw THEN t
                      ELSE processTimeline([t EXCEPT !.c.timelineIndex = k]))
             ELSE st

\* onComplete()
onComplete(st) ==
    LetIn(IF st.c.movement.onComplete = "explode"
          THEN triggerEvent(st, [type |-> "emit", time |-> 0, layerName |-> "",
                                 name |-> "",
                                 effect |-> st.c.definition.onImpact], 0)
          ELSE st,
          LAMBDA t : IF t.threw THEN t ELSE [t EXCEPT !.c.active = FALSE])

\* the layer loop of update(): the layers after it and what it did to them
UpdateLayers(st0, c2, deltaTime) ==
    [st0 EXCEPT
        !.c = [c2 EXCEPT !.layers =
                  [i \in 1..Len(c2.layers) |->
                      UpdateLayer(c2.layers[i], c2.time, deltaTime)]],
        !.h = [@ EXCEPT
                  !.updated = {i \in 1..Len(c2.layers) :
                                  LayerRuns(c2.layers[i], c2.time)},
                  !.expired = @ \cup {i \in 1..Len(c2.layers) :
                                  LayerExpires(c2.layers[i], c2.time)},
                  !.reenabled = @ \ {i \in 1..Len(c2.layers) :
                                  LayerExpires(c2.layers[i], c2.time)}]]

\* update(deltaTime): the statements in order; a throw ends the call there
CompositeUpdate(st0, deltaTime) ==
    IF ~st0.c.active THEN st0
    ELSE
    LetIn([st0.c EXCEPT !.time = @ + deltaTime], LAMBDA c1 :
    LetIn(IF c1.movement.kind # "none" THEN updateMovement(c1, deltaTime) ELSE c1,
          LAMBDA c2 :
    LetIn(UpdateLayers(st0, c2, deltaTime), LAMBDA st3 :
    LetIn(processTimeline(st3), LAMBDA st4 :
        IF st4.threw THEN st4
        ELSE IF st4.c.movement.kind # "none"
                /\ st4.c.time >= st4.c.movement.lifetime
        THEN onComplete(st4)
        ELSE st4))))

\* isActive()
isActive(c) == c.active \/ \E i \in 1..Len(c.layers) : c.layers[i].enabled

\* dispose(): every layer's system, every tracked sub-effect, group.clear()
CompositeDispose(c) ==
    [c EXCEPT !.layers = [i \in 1..Len(c.layers) |->
                             [c.layers[i] EXCEPT !.system = ParticleSystemDispose(@)]],
              !.groupChildren = 0]

NoCompositeHist ==
    [threw |-> FALSE, disposed |-> FALSE,
     dispatched |-> <<>>, spawned |-> <<>>,
     updated |-> {}, expired |-> {}, reenabled |-> {}]

NoComposite ==
    NewCompositeEffect([kind |-> "composite", name |-> "", layers |-> <<>>,
                        timeline |-> <<>>, movement |-> NoMovement,
                        onImpact |-> NoEffect])

(***************************************************************************)
(* SeededRNG (Mulberry32).  A 32-bit word is the pair of its 16-bit        *)
(* halves, [h, l]; the generator's state is a JavaScript number that       *)
(* `state += 0x6d2b79f5` lets grow past 32 bits, so its h is unbounded     *)
(* and the bit operations see it modulo 2^32.  next() returns the 32-bit   *)
(* word u that stands for u / 2^32.                                        *)
(***************************************************************************)
Two16 == 65536


Word(h, l) == [h |-> h, l |-> l]
Increment == Word(27947, 31221)

RECURSIVE BitXor(_, _)
BitXor(a, b) ==
    IF a = 0 THEN b ELSE IF b = 0 THEN a
    ELSE ((a + b) % 2) + 2 * BitXor(a \div 2, b \div 2)

RECURSIVE BitOr(_, _)
BitOr(a, b) ==
    IF a = 0 THEN b ELSE IF b = 0 THEN a
    ELSE (IF a % 2 = 1 \/ b % 2 = 1 THEN 1 ELSE 0) + 2 * BitOr(a \div 2, b \div 2)

RECURSIVE Pow2(_)
Pow2(k) == IF k = 0 THEN 1 ELSE 2 * Pow2(k - 1)

\* ToInt32 / ToUint32 of a number: its low 32 bits
ToUint32(x) == Word(x.h % Two16, x.l)
\* a ^ b
Xor32(a, b) == Word(BitXor(a.h, b.h), BitXor(a.l, b.l))
\* a | k for k < 2^16
Or32(a, k) == Word(a.h, BitOr(a.l, k))
\* a >>> k for 0 < k < 16
ShiftRight(a, k) ==
    Word(a.h \div Pow2(k), (a.l \div Pow2(k)) + (a.h % Pow2(k)) * Pow2(16 - k))
\* (a + b) seen through ToInt32
Add32(a, b) ==
    LET s == a.l + b.l IN Word((a.h + b.h + s \div Two16) % Two16, s % Two16)

\* the 32-bit product of two 16-bit numbers, by bytes of x
Mul16(x, y) ==
    LET p0 == (x % 256) * y
        p1 == (x \div 256) * y
        low == (p0 % Two16) + (p1 % 256) * 256
    IN  Word((p0 \div Two16) + (p1 \div 256) + (low \div Two16), low % Two16)

\* Math.imul(a, b): the low 32 bits of the product
imul(a, b) ==
    LET ll == Mul16(a.l, b.l) IN
    Word((ll.h + Mul16(a.h, b.l).l + Mul16(a.l, b.h).l) % Two16, ll.l)

Abs(n) == IF n < 0 THEN -n ELSE n

\* new SeededRNG(seed): Math.abs(seed | 0) || 1, for seeds that are int32
SeededRNG(seed) ==
    LET a == IF Abs(seed) = 0 THEN 1 ELSE Abs(seed) IN
    [state |-> Word(a \div Two16, a % Two16)]

\* reset(seed): Math.abs(seed | 0) || 1, and a reset that keeps the state
resetIgnored(rng, seed) == rng
reset(rng, seed) ==
    LET a == IF Abs(seed) = 0 THEN 1 ELSE Abs(seed) IN
    [rng EXCEPT !.state = Word(a \div Two16, a % Two16)]

\* next(): the generator after the call and the word drawn
next(rng) ==
    LET sl == rng.state.l + Increment.l IN
    LetIn(Word(rng.state.h + Increment.h + sl \div Two16, sl % Two16), LAMBDA state :
    LetIn(ToUint32(state), LAMBDA t0 :
    LetIn(Xor32(t0, ShiftRight(t0, 15)), LAMBDA x0 :
    LetIn(Or32(t0, 1), LAMBDA y0 :
    LetIn(imul(x0, y0), LAMBDA t1 :
    LetIn(Xor32(t1, ShiftRight(t1, 7)), LAMBDA x1 :
    LetIn(Or32(t1, 61), LAMBDA y1 :
    LetIn(imul(x1, y1), LAMBDA z1 :
    LetIn(Xor32(t1, Add32(t1, z1)), LAMBDA t2 :
        [rng |-> [rng EXCEPT !.state = state],
         value |-> Xor32(t2, ShiftRight(t2, 14))])))))))))

\* u / 2^32 * span, in the unit of span, to that unit's resolution (from the
\* upper 16 bits of u)
Fraction(u, span) == (u.h * span) \div Two16

\* nextFloat(min, max) = next() * (max - min) + min
nextFloat(rng, min, max) ==
    LetIn(next(rng), LAMBDA n :
        [rng |-> n.rng, value |-> Fraction(n.value, max - min) + min])

\* nextVec3InBox(): three nextFloat(-1, 1), in thousandths
nextVec3InBox(rng) ==
    LetIn(nextFloat(rng, -1000, 1000), LAMBDA x :
    LetIn(nextFloat(x.rng, -1000, 1000), LAMBDA y :
    LetIn(nextFloat(y.rng, -1000, 1000), LAMBDA z :
        [rng |-> z.rng, value |-> <<x.value, y.value, z.value>>])))

\* nextVec3InSphere(): rejection sampling in the unit ball
RECURSIVE nextVec3InSphere(_)
nextVec3InSphere(rng) ==
    LetIn(nextVec3InBox(rng), LAMBDA b :
        IF LengthSq(b.value) > 1000 * 1000 THEN nextVec3InSphere(b.rng) ELSE b)

\* nextVec3OnSphere()
nextVec3OnSphere(rng) ==
    LetIn(nextVec3InSphere(rng), LAMBDA b :
    LetIn(Sqrt(LengthSq(b.value)), LAMBDA len :
        IF len = 0 THEN [rng |-> b.rng, value |-> <<0, 1000, 0>>]
        ELSE [rng |-> b.rng,
              value |-> <<(b.value[1] * 1000) \div len,
                          (b.value[2] * 1000) \div len,
                          (b.value[3] * 1000) \div len>>]))

(***************************************************************************)
(* EffectSimulator (src/core/effect.ts).  Emitter offsets and particle     *)
(* positions are in millionths of a unit, sizes, radii and velocities in   *)
(* thousandths, gravity in whole units: every product the update computes  *)
(* is then exact.  Drag is in thousandths; the specs used have neither     *)
(* curl noise nor vorticity.                                               *)
(***************************************************************************)
MaxDeltaTime == 33

Seed(value) == [given |-> TRUE, value |-> value]
NoSeed == [given |-> FALSE, value |-> 0]

\* constructor(spec, seed = Date.now()); now is the clock's reading at the call
SeedAlwaysNow(seed, now) == now
SeedOrNow(seed, now) == IF seed.given THEN seed.value ELSE now

RECURSIVE SumMaxParticles(_)
SumMaxParticles(emitters) ==
    IF emitters = <<>> THEN 0
    ELSE Head(emitters).maxParticles + SumMaxParticles(Tail(emitters))

\* new EffectSimulator(spec, seed); emittedBy is not a field of the class: it
\* records, for each record of the pool, the index of the emitter whose
\* emitParticle call acquired it last (0: none yet)
NewEffectSimulator(spec, seed, now) ==
    [spec |-> spec,
     emittedBy |-> [p \in 1..SumMaxParticles(spec.emitters) |-> 0],
     rng |-> SeededRNG(SeedOrNow(seed, now)),
     pool |-> NewPool(SumMaxParticles(spec.emitters)),
     particles |-> <<>>,
     nextEmitTimes |-> [i \in 1..Len(spec.emitters) |-> Rat(0, spec.emitters[i].rate)],
     elapsedTime |-> 0]

\* the position emitParticle draws for the emitter's type
EmitPosition(rng, emitter) ==
    LET offset == emitter.position
        radius == IF emitter.params.radius # 0 THEN emitter.params.radius ELSE 1000
        size == emitter.params.size
    IN
    IF emitter.type = "sphere"
    THEN LetIn(nextVec3OnSphere(rng), LAMBDA dir :
             [rng |-> dir.rng, value |-> Add3(offset, Scale3(dir.value, radius))])
    ELSE IF emitter.type = "box"
    THEN LetIn(nextVec3InBox(rng), LAMBDA pos :
             [rng |-> pos.rng,
              value |-> <<offset[1] + (pos.value[1] * size[1]) \div 2,
                          offset[2] + (pos.value[2] * size[2]) \div 2,
                          offset[3] + (pos.value[3] * size[3]) \div 2>>])
    ELSE [rng |-> rng, value |-> offset]

\* emitParticle(emitter)
emitParticle(s, emitter) ==
    LET velRange == emitter.velocityRange IN
    LetIn(acquire(s.pool), LAMBDA a :
    IF a.particle = null THEN s
    ELSE
    LetIn(EmitPosition(s.rng, emitter), LAMBDA position :
    LetIn(nextFloat(position.rng, velRange.min[1], velRange.max[1]), LAMBDA v1 :
    LetIn(nextFloat(v1.rng, velRange.min[2], velRange.max[2]), LAMBDA v2 :
    LetIn(nextFloat(v2.rng, velRange.min[3], velRange.max[3]), LAMBDA v3 :
    LetIn(nextFloat(v3.rng, emitter.lifetime[1], emitter.lifetime[2]), LAMBDA lifetime :
    LetIn(next(lifetime.rng), LAMBDA c1 :
    LetIn(next(c1.rng), LAMBDA c2 :
    LetIn(next(c2.rng), LAMBDA c3 :
    LetIn(next(c3.rng), LAMBDA c4 :
    LetIn(initParticle(a.P, a.particle, position.value,
                       <<v1.value, v2.value, v3.value>>, lifetime.value), LAMBDA inited :
        [s EXCEPT
           !.rng = c4.rng,
           !.pool = [inited EXCEPT !.store[a.particle].customData =
                        <<c1.value, c2.value, c3.value, c4.value>>],
           !.particles = Append(@, a.particle)])))))))))))

\* the emission loop of one emitter: while (nextEmitTimes[idx] <= elapsedTime);
\* nextEmitTimes[idx] is the fraction n / rate of a millisecond count n, and a
\* rate of 0 makes the interval infinite
RECURSIVE EmitDue(_, _)
EmitDue(s, idx) ==
    LET t == s.nextEmitTimes[idx] IN
    IF t.n <= s.elapsedTime * t.d
    THEN LetIn(emitParticle(s, s.spec.emitters[idx]), LAMBDA e :
         LetIn([e EXCEPT
                   !.nextEmitTimes[idx] = Rat(t.n + OneSecond, t.d),
                   !.emittedBy = IF Len(e.particles) > Len(s.particles)
                                 THEN [@ EXCEPT ![e.particles[Len(e.particles)]] = idx]
                                 ELSE @],
               LAMBDA emitted : EmitDue(emitted, idx)))
    ELSE s

RECURSIVE EmitAll(_, _)
EmitAll(s, idx) ==
    IF idx > Len(s.spec.emitters) THEN s
    ELSE LetIn(EmitDue(s, idx), LAMBDA emitted : EmitAll(emitted, idx + 1))

\* particle.life -= deltaTime / particle.__lifetime
SubLife(life, deltaTime, lifetime) ==
    IF life.d = lifetime THEN Rat(life.n - deltaTime, lifetime)
    ELSE Rat(life.n * lifetime - deltaTime * life.d, life.d * lifetime)

\* Math.exp(-drag * deltaTime) in thousandths, drag in thousandths: the
\* series to the second order, which is exact to that resolution for the
\* drag <= 1 and the deltaTime <= 0.033 that reach it
Damping(drag, deltaTime) ==
    LET x == drag * deltaTime IN (1000000 - x + (x * x) \div 2000000) \div 1000

\* velocity *= damping
Damp(velocity, damping) == [k \in 1..3 |-> (velocity[k] * damping) \div 1000]

\* applyPhysics(particle, deltaTime): gravity, then drag; neither curl noise
\* nor vorticity
applyPhysics(s, p, deltaTime) ==
    [p EXCEPT !.velocity =
        Damp(Add3(@, Scale3(s.spec.physics.gravity, deltaTime)),
             Damping(s.spec.physics.drag, deltaTime))]

RemoveAt(q, i) == SubSeq(q, 1, i - 1) \o SubSeq(q, i + 1, Len(q))

\* one pass of the particle loop of update(), on the particle at index i
StepParticle(s, i, deltaTime) ==
    LET id == s.particles[i]
        p == s.pool.store[id]
        aged == IF p.lifetime # 0
                THEN [p EXCEPT !.life = SubLife(@, deltaTime, p.lifetime)]
                ELSE p
        moved == applyPhysics(s, aged, deltaTime)
    IN  IF ~p.alive
        THEN [s EXCEPT !.particles = RemoveAt(@, i)]
        ELSE IF aged.life.n <= 0
        THEN [s EXCEPT
                !.pool = release([@ EXCEPT !.store[id] =
                                     [aged EXCEPT !.alive = FALSE]], id),
                !.particles = RemoveAt(@, i)]
        ELSE [s EXCEPT !.pool.store[id] =
                 [moved EXCEPT !.position =
                     Add3(@, Scale3(moved.velocity, deltaTime))]]

\* the particle loop of update(), from the last particle to the first
RECURSIVE StepParticles(_, _, _)
StepParticles(s, i, deltaTime) ==
    IF i = 0 THEN s
    ELSE LetIn(StepParticle(s, i, deltaTime),
               LAMBDA stepped : StepParticles(stepped, i - 1, deltaTime))

\* deltaTime = Math.min(deltaTime, 0.033)
ClampDeltaTime(deltaTime) ==
    IF deltaTime < MaxDeltaTime THEN deltaTime ELSE MaxDeltaTime

\* the first half of update(deltaTime): the clock and the emission loops
SimulatorEmit(s, deltaTime) ==
    EmitAll([s EXCEPT !.elapsedTime = @ + ClampDeltaTime(deltaTime)], 1)

\* the second half of update(deltaTime): the particle loop
SimulatorStep(emitted, deltaTime) ==
    StepParticles(emitted, Len(emitted.particles), ClampDeltaTime(deltaTime))

\* update(deltaTime)
SimulatorUpdate(s, deltaTime) ==
    LetIn(SimulatorEmit(s, deltaTime), LAMBDA emitted :
        SimulatorStep(emitted, deltaTime))

\* clear(): every listed particle released, then an empty list; and a clear
\* that only empties the list
SimulatorClearList(s) == [s EXCEPT !.particles = <<>>]
RECURSIVE ReleaseListed(_, _)
ReleaseListed(P, particles) ==
    IF particles = <<>> THEN P
    ELSE ReleaseListed(release(P, Head(particles)), Tail(particles))
SimulatorClear(s) ==
    [s EXCEPT !.pool = ReleaseListed(@, s.particles), !.particles = <<>>]

\* getParticles(): the records of the list, in order
getParticles(s) == [i \in 1..Len(s.particles) |-> s.pool.store[s.particles[i]]]

NoSim == <<>>
NoSimHist == [seed |-> NoSeed, now |-> <<>>, dts |-> <<>>, ticks |-> <<>>]

NoSystems == <<>>
NoSystemHist == [scenario |-> 0, dts |-> <<>>]
NoApi == [called |-> FALSE]

(***************************************************************************)
(* An emitter of constant rate ticked with any sequence of dt >= 0.        *)
(***************************************************************************)
Rates == {0, 1, 3, 7, 100}
EmitterDts == {0, 10, 25, 100}

EmitterInit ==
    /\ \E r \in Rates : em = NewEmitter(ConstantRate(r))
    /\ emHist = NoEmitterHist
    /\ pp = NewPool(0) /\ ret = null
    /\ hist = [call |-> "new", arg |-> null, wasActive |-> FALSE,
               reused |-> FALSE, disposed |-> FALSE]
    /\ ce = NoComposite /\ scene = <<>> /\ ceHist = NoCompositeHist
    /\ sim = NoSim /\ simHist = NoSimHist
    /\ ps = NoSystems /\ psHist = NoSystemHist /\ api = NoApi

GetEmissionCount ==
    \E dt \in EmitterDts :
        /\ emHist.calls < MaxCalls
        /\ emHist.elapsed + dt <= MaxElapsed
        /\ em' = getEmissionCount(em, dt, 0).e
        /\ emHist' = [calls |-> emHist.calls + 1,
                      elapsed |-> emHist.elapsed + dt,
                      total |-> emHist.total + getEmissionCount(em, dt, 0).count]
        /\ UNCHANGED <<poolVars, compositeVars, simVars, systemVars, apiVars>>

EmitterNext == GetEmissionCount

SpecEmitter == EmitterInit /\ [][EmitterNext]_vars

(***************************************************************************)
(* A composite built from one of a set of definitions, attached to a scene *)
(* or not, ticked, and disposed of, in any order.                          *)
(***************************************************************************)
TheEffect ==
    [particles |-> [maxCount |-> 1,
                    lifetime |-> [type |-> "constant", value |-> 500],
                    initialVelocity |-> [type |-> "constant", value |-> <<0, 1000, 0>>]],
     emitter |-> [shape |-> "point", rate |-> ConstantRate(2)]]

LayerDef(name, enabled, startDelay, duration) ==
    [name |-> name, enabled |-> enabled, startDelay |-> startDelay,
     duration |-> duration, effect |-> TheEffect]

Event(time, type, layerName, name, effect) ==
    [time |-> time, type |-> type, layerName |-> layerName, name |-> name,
     effect |-> effect]

ImpactTemplate ==
    [kind |-> "composite", name |-> "Explosion",
     layers |-> <<LayerDef("Flash", TRUE, 0, 200)>>, timeline |-> <<>>,
     movement |-> NoMovement, onImpact |-> NoEffect]

LayerLists ==
    {<<LayerDef("A", TRUE, 500, 1000)>>,
     <<LayerDef("A", TRUE, 0, 0)>>,
     <<LayerDef("A", TRUE, 0, 1000), LayerDef("B", TRUE, 1200, 400)>>,
     <<LayerDef("A", TRUE, 500, 0), LayerDef("B", TRUE, 1200, 400)>>,
     <<LayerDef("A", TRUE, 0, 1000), LayerDef("B", FALSE, 0, 0)>>}

Timelines ==
    {<<>>,
     <<Event(400, "callback", "", "", NoEffect),
       Event(800, "disableLayer", "B", "", NoEffect)>>,
     <<Event(800, "callback", "", "", NoEffect),
       Event(400, "enableLayer", "B", "", NoEffect)>>,
     <<Event(600, "emit", "", "sub", ImpactTemplate),
       Event(1000, "callback", "", "", NoEffect)>>,
     <<Event(400, "disableLayer", "A", "", NoEffect),
       Event(1400, "enableLayer", "A", "", NoEffect)>>}

MovementDef(lifetime, onCompleteKind) ==
    [kind |-> "movement", type |-> "", velocity |-> <<0, 0, 15000>>,
     acceleration |-> <<0, -1, 0>>, rotationSpeed |-> <<0, 2, 0>>,
     lifetime |-> lifetime, onComplete |-> onCompleteKind]

\* a movement and the onImpact template that goes with it
Movements ==
    {<<NoMovement, NoEffect>>, <<MovementDef(0, "explode"), ImpactTemplate>>}
    \cup {<<MovementDef(1000, k), imp>> :
             k \in {"explode", ""}, imp \in {NoEffect, ImpactTemplate}}

Definitions ==
    {[kind |-> "composite", name |-> "Effect", layers |-> ls, timeline |-> tl,
      movement |-> m[1], onImpact |-> m[2]] :
        ls \in LayerLists, tl \in Timelines, m \in Movements}

CompositeDts == {200, 400, 1000}

CompositeInit ==
    /\ \E d \in Definitions : ce = NewCompositeEffect(d)
    /\ scene = <<>>
    /\ ceHist = NoCompositeHist
    /\ pp = NewPool(0) /\ ret = null
    /\ hist = [call |-> "new", arg |-> null, wasActive |-> FALSE,
               reused |-> FALSE, disposed |-> FALSE]
    /\ em = NoEmitter /\ emHist = NoEmitterHist
    /\ sim = NoSim /\ simHist = NoSimHist
    /\ ps = NoSystems /\ psHist = NoSystemHist /\ api = NoApi

\* scene.add(effect.getObject3D()), before the first frame
Attach ==
    /\ ~ce.attached /\ ce.time = 0
    /\ ce' = [ce EXCEPT !.attached = TRUE]
    /\ UNCHANGED <<scene, ceHist, poolVars, emitterVars, simVars, systemVars, apiVars>>

UpdateResult(deltaTime) ==
    CompositeUpdate([c |-> ce, scene |-> scene, threw |-> FALSE,
                     h |-> [ceHist EXCEPT !.threw = FALSE, !.updated = {}]],
                    deltaTime)

Update(deltaTime) ==
    /\ ce.time + deltaTime <= MaxCompositeTime
    /\ \E r \in {UpdateResult(deltaTime)} :
          /\ ce' = r.c
          /\ scene' = r.scene
          /\ ceHist' = [r.h EXCEPT !.threw = r.threw]
    /\ UNCHANGED <<poolVars, emitterVars, simVars, systemVars, apiVars>>

Tick == \E deltaTime \in CompositeDts : Update(deltaTime)

DisposeComposite ==
    /\ ~ceHist.disposed
    /\ ce' = CompositeDispose(ce)
    /\ scene' = [i \in 1..Len(scene) |->
                    IF \E e \in 1..Len(ce.subEmitters) : ce.subEmitters[e].child = i
                    THEN CompositeDispose(scene[i]) ELSE scene[i]]
    /\ ceHist' = [ceHist EXCEPT !.disposed = TRUE]
    /\ UNCHANGED <<poolVars, emitterVars, simVars, systemVars, apiVars>>

CompositeNext == Attach \/ Tick \/ DisposeComposite

SpecComposite == CompositeInit /\ [][CompositeNext]_vars

\* a composite with a finite movement lifetime and finite layer durations,
\* all of them over before MaxCompositeTime, in a frame loop that keeps
\* calling update(dt): a tick that can be taken is taken sooner or later
LiveDefinitions ==
    {d \in Definitions :
        /\ d.movement.kind # "none" /\ d.movement.lifetime # 0
        /\ \A i \in 1..Len(d.layers) : d.layers[i].duration # 0}

LiveInit == CompositeInit /\ ce.definition \in LiveDefinitions

SpecCompositeLive == LiveInit /\ [][CompositeNext]_vars /\ WF_vars(Tick)

(***************************************************************************)
(* The pool driven by a caller: any sequence of calls.                     *)
(***************************************************************************)
\* reused: this call is an acquire() that returned the record that the call
\* right before it released
Called(name, arg, result) ==
    [call |-> name, arg |-> arg,
     wasActive |-> InSeq(arg, pp.active),
     reused |-> /\ name = "acquire"
                /\ hist.call = "release" /\ hist.wasActive
                /\ result = hist.arg,
     disposed |-> hist.disposed \/ name = "dispose"]

PoolInit ==
    /\ \E c \in 0..MaxCapacity : pp = NewPool(c)
    /\ ret = null
    /\ em = NoEmitter /\ emHist = NoEmitterHist
    /\ ce = NoComposite /\ scene = <<>> /\ ceHist = NoCompositeHist
    /\ sim = NoSim /\ simHist = NoSimHist
    /\ ps = NoSystems /\ psHist = NoSystemHist /\ api = NoApi
    /\ hist = [call |-> "new", arg |-> null, wasActive |-> FALSE,
               reused |-> FALSE, disposed |-> FALSE]

\* createParticle calls are capped at MaxRecords
Acquire ==
    /\ Len(pp.pool) = 0 /\ Len(pp.active) < pp.capacity
           => Len(pp.store) < MaxRecords
    /\ pp' = acquire(pp).P
    /\ ret' = acquire(pp).particle
    /\ hist' = Called("acquire", null, acquire(pp).particle)
    /\ UNCHANGED <<emitterVars, compositeVars, simVars, systemVars, apiVars>>

\* release(p) of a record of this pool or, with p past the last of them, of a
\* record that another pool made
Release ==
    \E p \in 1..(Len(pp.store) + 1) :
        /\ pp' = release(pp, p)
        /\ hist' = Called("release", p, null)
        /\ UNCHANGED ret
        /\ UNCHANGED <<emitterVars, compositeVars, simVars, systemVars, apiVars>>

ReleaseAll ==
    /\ pp' = releaseAll(pp)
    /\ hist' = Called("releaseAll", null, null)
    /\ UNCHANGED ret
    /\ UNCHANGED <<emitterVars, compositeVars, simVars, systemVars, apiVars>>

Clear ==
    /\ pp' = clear(pp)
    /\ hist' = Called("clear", null, null)
    /\ UNCHANGED ret
    /\ UNCHANGED <<emitterVars, compositeVars, simVars, systemVars, apiVars>>

Dispose ==
    /\ pp' = dispose(pp)
    /\ hist' = Called("dispose", null, null)
    /\ UNCHANGED ret
    /\ UNCHANGED <<emitterVars, compositeVars, simVars, systemVars, apiVars>>

\* the caller fills in the record it has just acquired (as
\* EffectSimulator.emitParticle does)
InitParticle ==
    /\ hist.call = "acquire" /\ ret # null
    /\ pp' = initParticle(pp, ret, <<1, 2, 3>>, <<4, 5, 6>>, 2 * OneSecond)
    /\ hist' = Called("initParticle", null, null)
    /\ UNCHANGED ret
    /\ UNCHANGED <<emitterVars, compositeVars, simVars, systemVars, apiVars>>

PoolNext == Acquire \/ Release \/ ReleaseAll \/ Clear \/ Dispose \/ InitParticle

SpecPool == PoolInit /\ [][PoolNext]_vars

(***************************************************************************)
(* Two simulators built from the same spec and the same seed argument, at  *)
(* different times, and ticked independently with one sequence of dt.      *)
(***************************************************************************)
EmitterConfig(type, rate, maxParticles) ==
    [type |-> type, rate |-> rate, maxParticles |-> maxParticles,
     lifetime |-> <<20, 60>>,
     velocityRange |-> [min |-> <<-1000, 0, -1000>>, max |-> <<1000, 2000, 1000>>],
     position |-> <<0, 1000000, 0>>,
     params |-> [radius |-> 500, size |-> <<1000, 2000, 1000>>]]

EffectSpecs ==
    {[emitters |-> es, physics |-> [gravity |-> <<0, -10, 0>>, drag |-> 0]] :
        es \in {<<EmitterConfig("point", 100, 2)>>,
                <<EmitterConfig("box", 50, 2)>>,
                <<EmitterConfig("sphere", 100, 1)>>,
                <<EmitterConfig("box", 0, 1), EmitterConfig("sphere", 50, 1)>>}}

Seeds == {Seed(0), Seed(-7), NoSeed}
\* Date.now() at the two constructor calls
Clocks == {<<1000, 1000>>, <<1000, 2000>>}
SimDts == {10, 50}
Instances == {1, 2}

SimInit ==
    /\ \E spec \in EffectSpecs, seed \in Seeds, now \in Clocks :
          /\ sim = [i \in Instances |-> NewEffectSimulator(spec, seed, now[i])]
          /\ simHist = [seed |-> seed, now |-> now, dts |-> <<>>,
                        ticks |-> [i \in Instances |-> 0]]
    /\ pp = NewPool(0) /\ ret = null
    /\ hist = [call |-> "new", arg |-> null, wasActive |-> FALSE,
               reused |-> FALSE, disposed |-> FALSE]
    /\ em = NoEmitter /\ emHist = NoEmitterHist
    /\ ce = NoComposite /\ scene = <<>> /\ ceHist = NoCompositeHist
    /\ ps = NoSystems /\ psHist = NoSystemHist /\ api = NoApi

\* instance i's next update(dt): the dt the other instance had at that tick,
\* or a new one when i is ahead
SimTick ==
    \E i \in Instances, deltaTime \in SimDts :
        /\ simHist.ticks[i] < MaxTicks
        /\ simHist.ticks[i] < Len(simHist.dts)
              => deltaTime = simHist.dts[simHist.ticks[i] + 1]
        /\ sim' = [sim EXCEPT ![i] = SimulatorUpdate(@, deltaTime)]
        /\ simHist' = [simHist EXCEPT
                          !.ticks[i] = @ + 1,
                          !.dts = IF simHist.ticks[i] < Len(@) THEN @
                                  ELSE Append(@, deltaTime)]
        /\ UNCHANGED <<poolVars, emitterVars, compositeVars, systemVars, apiVars>>

SimNext == SimTick

SpecSim == SimInit /\ [][SimNext]_vars

(***************************************************************************)
(* One EffectSimulator that is updated and cleared in any order.           *)
(***************************************************************************)
ListDts == {0, 20, 50}

ListInit ==
    /\ \E spec \in EffectSpecs :
          /\ sim = <<NewEffectSimulator(spec, Seed(0), 0)>>
          /\ simHist = [seed |-> Seed(0), now |-> <<0>>, dts |-> <<>>,
                        ticks |-> <<0>>, cleared |-> 0, released |-> 0,
                        call |-> "new"]
    /\ pp = NewPool(0) /\ ret = null
    /\ hist = [call |-> "new", arg |-> null, wasActive |-> FALSE,
               reused |-> FALSE, disposed |-> FALSE]
    /\ em = NoEmitter /\ emHist = NoEmitterHist
    /\ ce = NoComposite /\ scene = <<>> /\ ceHist = NoCompositeHist
    /\ ps = NoSystems /\ psHist = NoSystemHist /\ api = NoApi

\* update(deltaTime)
ListUpdate ==
    \E deltaTime \in ListDts :
        /\ simHist.ticks[1] + simHist.cleared < MaxTicks
        /\ sim' = [sim EXCEPT ![1] = SimulatorUpdate(@, deltaTime)]
        /\ simHist' = [simHist EXCEPT !.ticks[1] = @ + 1,
                                      !.dts = Append(@, deltaTime),
                                      !.call = "update"]
        /\ UNCHANGED <<poolVars, emitterVars, compositeVars, systemVars, apiVars>>

\* clear()
ListClear ==
    /\ simHist.ticks[1] + simHist.cleared < MaxTicks
    /\ sim' = [sim EXCEPT ![1] = SimulatorClear(@)]
    /\ simHist' = [simHist EXCEPT !.cleared = @ + 1,
                                  !.released = @ + Len(sim[1].particles),
                                  !.call = "clear"]
    /\ UNCHANGED <<poolVars, emitterVars, compositeVars, systemVars, apiVars>>

ListNext == ListUpdate \/ ListClear

SpecList == ListInit /\ [][ListNext]_vars

(***************************************************************************)
(* A frame loop that hands every frame's dt to an EffectSimulator, to a    *)
(* ParticleSystem and to a CompositeEffect whose one layer owns a          *)
(* ParticleSystem of the same definition.                                  *)
(***************************************************************************)
ConstantValue(v) == [type |-> "constant", value |-> v, min |-> 0, max |-> 0]
NoCurve == [kind |-> "none", keyframes |-> <<>>]

\* a ParticleSystem definition: a point emitter of constant rate, particles
\* of constant lifetime, no burst, no forces, no over-lifetime curves
SystemDefinition(rate, maxCount, lifetime) ==
    [particles |-> [maxCount |-> maxCount,
                    lifetime |-> ConstantValue(lifetime),
                    initialVelocity |-> ConstantValue(<<0, 1000, 0>>)],
     emitter |-> [shape |-> "point", rate |-> ConstantRate(rate), burst |-> <<>>],
     forces |-> <<>>,
     overLifetime |-> [scale |-> NoCurve]]

\* an EffectSpec emitter whose particles all live for the same time
FixedLifetime(rate, maxParticles, lifetime) ==
    [EmitterConfig("point", rate, maxParticles) EXCEPT !.lifetime = <<lifetime, lifetime>>]

SimulatorSpec(emitters) ==
    [emitters |-> emitters, physics |-> [gravity |-> <<0, 0, 0>>, drag |-> 0]]

Scenarios ==
    <<[spec |-> SimulatorSpec(<<FixedLifetime(1, 1, 1000)>>),
       definition |-> SystemDefinition(10, 1, 1000)],
      [spec |-> SimulatorSpec(<<FixedLifetime(100, 2, 60)>>),
       definition |-> SystemDefinition(100, 2, 60)],
      [spec |-> SimulatorSpec(<<FixedLifetime(0, 1, 40), FixedLifetime(50, 1, 60)>>),
       definition |-> SystemDefinition(30, 1, 40)]>>

StepDts == {20, 100}

OneLayer(definition) ==
    [kind |-> "composite", name |-> "Effect",
     layers |-> <<[LayerDef("Layer", TRUE, 0, 0) EXCEPT !.effect = definition]>>,
     timeline |-> <<>>, movement |-> NoMovement, onImpact |-> NoEffect]

StepInit ==
    /\ \E k \in 1..Len(Scenarios) :
          /\ sim = <<NewEffectSimulator(Scenarios[k].spec, Seed(0), 0)>>
          /\ ps = <<NewParticleSystem(Scenarios[k].definition)>>
          /\ ce = NewCompositeEffect(OneLayer(Scenarios[k].definition))
          /\ psHist = [scenario |-> k, dts |-> <<>>,
                       simAttempts |-> 0, simEmitted |-> 0, simDropped |-> 0,
                       psCount |-> 0, psEmitted |-> 0, psDropped |-> 0]
    /\ simHist = NoSimHist
    /\ scene = <<>> /\ ceHist = NoCompositeHist
    /\ pp = NewPool(0) /\ ret = null
    /\ hist = [call |-> "new", arg |-> null, wasActive |-> FALSE,
               reused |-> FALSE, disposed |-> FALSE]
    /\ em = NoEmitter /\ emHist = NoEmitterHist
    /\ api = NoApi

\* how many times the emission loops of a simulator update ran in all
RECURSIVE Attempts(_, _, _)
Attempts(before, after, idx) ==
    IF idx > Len(before.nextEmitTimes) THEN 0
    ELSE (after.nextEmitTimes[idx].n - before.nextEmitTimes[idx].n) \div OneSecond
         + Attempts(before, after, idx + 1)

\* the slots that emitParticles initialised
Initialised(before, after) ==
    Cardinality({i \in 1..Len(before.particles) :
                    after.particles[i] # before.particles[i]})

\* one frame: simulator.update(dt); system.update(dt); effect.update(dt).
\* Each update is its emitting half followed by its particle loop.
Frame(deltaTime) ==
    \E simEmit \in {SimulatorEmit(sim[1], deltaTime)},
       psEmit \in {ParticleSystemEmit(ps[1], deltaTime, NoDraws(ps[1]))} :
    LET attempts == Attempts(sim[1], simEmit, 1)
        simEmitted == Len(simEmit.particles) - Len(sim[1].particles)
        count == getEmissionCount(ps[1].emitter, deltaTime, 0).count
        psEmitted == Initialised(ps[1], psEmit)
    IN
    /\ Len(psHist.dts) < MaxFrames
    /\ sim' = <<SimulatorStep(simEmit, deltaTime)>>
    /\ ps' = <<updateParticles(psEmit, deltaTime)>>
    /\ ce' = CompositeUpdate([c |-> ce, scene |-> scene, threw |-> FALSE,
                              h |-> ceHist], deltaTime).c
    /\ psHist' = [psHist EXCEPT
                     !.dts = Append(@, deltaTime),
                     !.simAttempts = attempts,
                     !.simEmitted = simEmitted,
                     !.simDropped = @ + attempts - simEmitted,
                     !.psCount = count,
                     !.psEmitted = psEmitted,
                     !.psDropped = @ + count - psEmitted]
    /\ UNCHANGED <<scene, ceHist, simHist, poolVars, emitterVars, apiVars>>

StepNext == \E deltaTime \in StepDts : Frame(deltaTime)

SpecStep == StepInit /\ [][StepNext]_vars

(***************************************************************************)
(* The ParticleSystem constructor's factories, and two ParticleSystems     *)
(* built from one definition and ticked frame by frame with the same dt.   *)
(* Math.random() is the process-wide generator: each call's draw is any    *)
(* value of RandomDraws, in thousandths.                                   *)
(***************************************************************************)
KnownShapes == {"point", "sphere", "box", "cone"}
KnownForces == {"gravity", "drag", "turbulence", "vortex", "attractor", "wind",
                "buoyancy"}

\* createForce(definition): the default case warns and builds GravityForce(0),
\* whose calculate() is the zero vector
createForce(definition) ==
    IF definition.type \in KnownForces
    THEN [type |-> definition.type, strength |-> definition.strength, threw |-> FALSE]
    ELSE [type |-> "gravity", strength |-> 0, threw |-> FALSE]

\* createCurve(keyframes) -> new Curve(keyframes), for at most one keyframe
createCurve(keyframes) ==
    [threw |-> Len(keyframes) = 0, keyframes |-> keyframes]

\* whether new ParticleSystem(definition) throws: createEmitter, then
\* createForce for each force, then createCurve for each configured curve
ConstructorThrows(definition) ==
    \/ \E f \in 1..Len(definition.forces) : createForce(definition.forces[f]).threw
    \/ /\ definition.overLifetime.scale.kind # "none"
       /\ createCurve(definition.overLifetime.scale.keyframes).threw

Burst(time, count) == [time |-> time, count |-> count]
UniformValue(min, max) == [type |-> "uniform", value |-> 0, min |-> min, max |-> max]

SystemDefinitions ==
    {[SystemDefinition(0, 2, 500) EXCEPT !.emitter.burst = <<Burst(0, 2)>>],
     [SystemDefinition(10, 3, 500) EXCEPT !.emitter.burst = <<Burst(40, 1)>>],
     SystemDefinition(100, 2, 60),
     [SystemDefinition(10, 1, 500) EXCEPT !.emitter.shape = "ring"],
     [SystemDefinition(10, 1, 500) EXCEPT
         !.forces = <<[type |-> "magnet", strength |-> 3]>>],
     [SystemDefinition(10, 1, 500) EXCEPT
         !.overLifetime.scale = [kind |-> "curve", keyframes |-> <<>>]],
     [SystemDefinition(10, 1, 500) EXCEPT
         !.overLifetime.scale =
             [kind |-> "curve", keyframes |-> <<[time |-> 0, value |-> 1]>>]],
     [SystemDefinition(0, 1, 60) EXCEPT !.emitter.rate = UniformValue(0, 100)],
     [SystemDefinition(100, 1, 0) EXCEPT
         !.particles.lifetime = UniformValue(20, 60)]}

SystemDts == {20, 100}
RandomDraws == {0, 999}

\* the draws one update() call can get: none are made for a constant rate or
\* a constant lifetime
Draws(sys) ==
    {[rate |-> r, lifetime |-> l] :
        r \in IF sys.emitter.rate.type = "uniform" THEN RandomDraws ELSE {0},
        l \in [1..Len(sys.particles) ->
                  IF sys.definition.particles.lifetime.type = "uniform"
                  THEN RandomDraws ELSE {0}]}

SystemInit ==
    /\ \E d \in SystemDefinitions :
          /\ ps = IF ConstructorThrows(d) THEN NoSystems
                  ELSE [i \in Instances |-> NewParticleSystem(d)]
          /\ psHist = [definition |-> d, threw |-> ConstructorThrows(d),
                       dts |-> <<>>,
                       count |-> [i \in Instances |-> 0],
                       emitted |-> [i \in Instances |-> 0]]
    /\ sim = NoSim /\ simHist = NoSimHist
    /\ ce = NoComposite /\ scene = <<>> /\ ceHist = NoCompositeHist
    /\ pp = NewPool(0) /\ ret = null
    /\ hist = [call |-> "new", arg |-> null, wasActive |-> FALSE,
               reused |-> FALSE, disposed |-> FALSE]
    /\ em = NoEmitter /\ emHist = NoEmitterHist
    /\ api = NoApi

\* one frame: update(deltaTime) on both systems
SystemFrame(deltaTime) ==
    /\ ps # NoSystems
    /\ Len(psHist.dts) < MaxSystemFrames
    /\ \E draws \in [Instances -> Draws(ps[1])] :
       \E emit \in {[i \in Instances |->
                        ParticleSystemEmit(ps[i], deltaTime, draws[i])]} :
          /\ ps' = [i \in Instances |-> updateParticles(emit[i], deltaTime)]
          /\ psHist' = [psHist EXCEPT
                !.dts = Append(@, deltaTime),
                !.count = [i \in Instances |->
                    getEmissionCount(ps[i].emitter, deltaTime, draws[i].rate).count],
                !.emitted = [i \in Instances |-> Initialised(ps[i], emit[i])]]
    /\ UNCHANGED <<poolVars, emitterVars, compositeVars, simVars, apiVars>>

SystemNext == \E deltaTime \in SystemDts : SystemFrame(deltaTime)

SpecSystem == SystemInit /\ [][SystemNext]_vars

(***************************************************************************)
(* renderEffectToCanvas (src/api/entry.ts) and the validator it calls.     *)
(* Of an EffectSpec the model keeps the emitters' rate, maxParticles,      *)
(* lifetime and velocityRange and the renderer's colorRamp (the other      *)
(* fields are valid and are passed through unchanged).  Rates are whole    *)
(* numbers, lifetimes are in ms, velocities and the t of a colour stop in  *)
(* thousandths.  A quality multiplier is kept in halves.  isObject is      *)
(* FALSE for an input that is no object at all (null, a number, a string). *)
(***************************************************************************)
MAX_PARTICLES == 200000
DEFAULT_MAX_PARTICLES == 65536
MAX_EMIT_RATE == 200000
MAX_EMITTERS == 10
MAX_LIFETIME == 60000
MIN_LIFETIME == 10
DefaultEmitRate == 100
GpuThreshold == 2048
Absent == -1

\* EmitterConfigSchema: the defaults of rate and maxParticles
ParseEmitter(e) ==
    [e EXCEPT !.rate = IF @ = Absent THEN DefaultEmitRate ELSE @,
              !.maxParticles = IF @ = Absent THEN DEFAULT_MAX_PARTICLES ELSE @]

\* one entry of a result's errors: the path or the check, and the index of
\* the emitter or colour stop it is about (0 when about the whole spec)
Issue(path, index) == [path |-> path, index |-> index]

\* the entries of errors for the indices 1..n at which failed(i) holds
RECURSIVE IssuesAt(_, _, _)
IssuesAt(n, failed(_), path) ==
    IF n = 0 THEN <<>>
    ELSE IssuesAt(n - 1, failed, path)
         \o (IF failed(n) THEN <<Issue(path, n)>> ELSE <<>>)

\* EffectSpecSchema.parse(spec): the issues of the ZodError it throws, none
\* when it returns parsed
SchemaIssues(spec, parsed) ==
    IF ~spec.isObject THEN <<Issue("", 0)>>
    ELSE (IF Len(parsed) < 1 \/ Len(parsed) > MAX_EMITTERS
          THEN <<Issue("emitters", 0)>> ELSE <<>>)
         \o IssuesAt(Len(parsed),
                LAMBDA i : parsed[i].rate < 0 \/ parsed[i].rate > MAX_EMIT_RATE,
                "emitters.rate")
         \o IssuesAt(Len(parsed),
                LAMBDA i : \/ parsed[i].maxParticles < 1
                           \/ parsed[i].maxParticles > MAX_PARTICLES,
                "emitters.maxParticles")
         \o IssuesAt(Len(parsed),
                LAMBDA i : \E k \in 1..2 :
                              \/ parsed[i].lifetime[k] < MIN_LIFETIME
                              \/ parsed[i].lifetime[k] > MAX_LIFETIME,
                "emitters.lifetime")
         \o IssuesAt(Len(spec.colorRamp),
                LAMBDA i : spec.colorRamp[i] < 0 \/ spec.colorRamp[i] > 1000,
                "renderer.colorRamp.t")

\* the lifetime check of validateEffectSpec, and what it is without it
LifetimeInvertedIgnored(emitter) == FALSE
LifetimeInverted(emitter) == emitter.lifetime[1] > emitter.lifetime[2]

\* the additional cross-field validations of validateEffectSpec
CrossFieldErrors(parsed, colorRamp) ==
    (IF SumMaxParticles(parsed) > MAX_PARTICLES
     THEN <<Issue("Total maxParticles across all emitters", 0)>> ELSE <<>>)
    \o IssuesAt(Len(parsed), LAMBDA i : LifetimeInverted(parsed[i]),
                "lifetime min > max")
    \o IssuesAt(Len(parsed),
                LAMBDA i : \E k \in 1..3 :
                    parsed[i].velocityRange.min[k] > parsed[i].velocityRange.max[k],
                "velocityRange.min > max")
    \o (IF Len(colorRamp) > 1
        THEN IssuesAt(Len(colorRamp),
                 LAMBDA i : i > 1 /\ colorRamp[i] < colorRamp[i - 1],
                 "renderer.colorRamp: stops must be in ascending order")
        ELSE <<>>)

\* validateEffectSpec(spec); the try block holds the whole body, so nothing
\* is thrown to the caller
validateEffectSpec(spec) ==
    LET parsed == IF spec.isObject
                  THEN [i \in 1..Len(spec.emitters) |-> ParseEmitter(spec.emitters[i])]
                  ELSE <<>>
        issues == SchemaIssues(spec, parsed)
        errors == CrossFieldErrors(parsed, spec.colorRamp)
    IN  IF issues # <<>>
        THEN [valid |-> FALSE, threw |-> FALSE, errors |-> issues, spec |-> spec]
        ELSE IF Len(errors) > 0
        THEN [valid |-> FALSE, threw |-> FALSE, errors |-> errors, spec |-> spec]
        ELSE [valid |-> TRUE, threw |-> FALSE, errors |-> <<>>,
              spec |-> [spec EXCEPT !.emitters = parsed]]

\* clampNumber(value, min, max)
clampNumber(value, min, max) ==
    LET capped == IF max < value THEN max ELSE value IN
    IF min > capped THEN min ELSE capped

\* enforceResourceLimits(spec)
enforceResourceLimits(spec) ==
    [spec EXCEPT !.emitters =
        [i \in 1..Len(@) |->
            [@[i] EXCEPT
                !.rate = clampNumber(@, 0, MAX_EMIT_RATE),
                !.maxParticles = clampNumber(@, 1, MAX_PARTICLES),
                !.lifetime = <<clampNumber(@[1], MIN_LIFETIME, MAX_LIFETIME),
                               clampNumber(@[2], MIN_LIFETIME, MAX_LIFETIME)>>]]]

\* qualityMultipliers, in halves
qualityMultipliers(quality) ==
    IF quality = "low" THEN 1 ELSE IF quality = "medium" THEN 2 ELSE 3

\* applyQualitySettings(spec, quality)
applyQualitySettings(spec, quality) ==
    [spec EXCEPT !.emitters =
        [i \in 1..Len(@) |->
            [@[i] EXCEPT
                !.rate = (@ * qualityMultipliers(quality)) \div 2,
                !.maxParticles = (@ * qualityMultipliers(quality)) \div 2]]]

\* renderEffectToCanvas(spec, canvas, opts); hasWebGL2 is what detectWebGL2()
\* finds.  The renderer of either mode builds a ParticlePool whose capacity
\* is the sum of the emitters' maxParticles.
renderEffectToCanvas(spec, opts, hasWebGL2) ==
    LET validationResult == validateEffectSpec(spec)
        safeSpec == enforceResourceLimits(validationResult.spec)
        totalParticles == SumMaxParticles(safeSpec.emitters)
        auto == IF hasWebGL2 /\ spec.rendererMode # "cpu"
                   /\ totalParticles > GpuThreshold
                THEN "gpu" ELSE "cpu"
        requested == IF opts.mode = "" \/ opts.mode = "auto" THEN auto ELSE opts.mode
        mode == IF requested = "gpu" /\ ~hasWebGL2 THEN "cpu" ELSE requested
        qualitySpec == applyQualitySettings(safeSpec,
                           IF opts.quality = "" THEN "medium" ELSE opts.quality)
    IN  IF ~validationResult.valid
        THEN [called |-> TRUE, threw |-> TRUE, mode |-> "", spec |-> spec,
              capacity |-> 0]
        ELSE [called |-> TRUE, threw |-> FALSE, mode |-> mode, spec |-> qualitySpec,
              capacity |-> SumMaxParticles(qualitySpec.emitters)]

\* an emitter whose lifetime and velocityRange are in order
RenderEmitter(rate, maxParticles) ==
    [rate |-> rate, maxParticles |-> maxParticles, lifetime |-> <<1000, 2000>>,
     velocityRange |-> [min |-> <<0, 0, 0>>, max |-> <<1000, 1000, 1000>>]]

InputEmitters ==
    {<<RenderEmitter(r, m)>> :
        r \in {Absent, 0, 1, 133334, MAX_EMIT_RATE, MAX_EMIT_RATE + 1},
        m \in {Absent, 0, 1, 3, 133334, MAX_PARTICLES}}
    \cup {<<RenderEmitter(100, m), RenderEmitter(100, n)>> :
             m \in {1, 100000}, n \in {100000, 150000}}
    \cup {<<>>}

InputSpecs ==
    {[isObject |-> TRUE, emitters |-> es, rendererMode |-> "auto",
      colorRamp |-> <<>>] : es \in InputEmitters}
Qualities == {"", "low", "medium", "high"}

RenderInit ==
    /\ \E spec \in InputSpecs, q \in Qualities, hasWebGL2 \in BOOLEAN :
          api = [called |-> FALSE, spec |-> spec,
                 opts |-> [mode |-> "", quality |-> q], hasWebGL2 |-> hasWebGL2]
    /\ ps = NoSystems /\ psHist = NoSystemHist
    /\ sim = NoSim /\ simHist = NoSimHist
    /\ ce = NoComposite /\ scene = <<>> /\ ceHist = NoCompositeHist
    /\ pp = NewPool(0) /\ ret = null
    /\ hist = [call |-> "new", arg |-> null, wasActive |-> FALSE,
               reused |-> FALSE, disposed |-> FALSE]
    /\ em = NoEmitter /\ emHist = NoEmitterHist

\* the call; api keeps its arguments next to what it handed on
Render ==
    /\ ~api.called
    /\ api' = [input |-> api,
               result |-> renderEffectToCanvas(api.spec, api.opts, api.hasWebGL2),
               called |-> TRUE]
    /\ UNCHANGED <<poolVars, emitterVars, compositeVars, simVars, systemVars>>

RenderNext == Render

SpecRender == RenderInit /\ [][RenderNext]_vars

(***************************************************************************)
(* validateEffectSpec called on its own with inputs of every kind it       *)
(* tells apart.                                                            *)
(***************************************************************************)
ValidatedEmitter(maxParticles, lifetime, vmin, vmax) ==
    [rate |-> 100, maxParticles |-> maxParticles, lifetime |-> lifetime,
     velocityRange |-> [min |-> vmin, max |-> vmax]]

\* n emitters that are in order on their own
Emitters(n, maxParticles) ==
    [i \in 1..n |-> ValidatedEmitter(maxParticles, <<1000, 2000>>,
                                     <<0, 0, 0>>, <<1000, 1000, 1000>>)]

ValidatedEmitters ==
    {Emitters(n, 1000) : n \in {0, 1, 2, MAX_EMITTERS, MAX_EMITTERS + 1}}
    \cup {Emitters(2, m) : m \in {100000, 100001}}
    \cup {<<ValidatedEmitter(m, l, <<0, 0, 0>>, <<1000, 1000, 1000>>)>> :
             m \in {Absent, 0, MAX_PARTICLES, MAX_PARTICLES + 1},
             l \in {<<1000, 1000>>, <<5000, 1000>>, <<9, 1000>>,
                    <<1000, MAX_LIFETIME + 1>>}}
    \cup {<<ValidatedEmitter(1000, <<1000, 2000>>, vmin, <<1000, 1000, 1000>>)>> :
             vmin \in {<<1000, 1000, 1000>>, <<1001, 0, 0>>, <<0, 0, 1001>>,
                       <<-1000, 1001, 0>>}}
    \cup {<<ValidatedEmitter(1000, <<1000, 2000>>, <<0, 0, 0>>, <<1, 1, 1>>),
            ValidatedEmitter(1000, <<2000, 1000>>, <<0, 0, 0>>, <<1, 1, 1>>)>>}

ColorRamps ==
    {<<>>, <<500>>, <<0, 500, 1000>>, <<500, 500>>, <<500, 200>>,
     <<0, 1000, 999>>, <<0, 1001>>}

ValidatedInputs ==
    {[isObject |-> o, emitters |-> es, rendererMode |-> "auto", colorRamp |-> ramp] :
        o \in BOOLEAN, es \in ValidatedEmitters, ramp \in ColorRamps}

ValidateInit ==
    /\ \E spec \in ValidatedInputs : api = [called |-> FALSE, spec |-> spec]
    /\ ps = NoSystems /\ psHist = NoSystemHist
    /\ sim = NoSim /\ simHist = NoSimHist
    /\ ce = NoComposite /\ scene = <<>> /\ ceHist = NoCompositeHist
    /\ pp = NewPool(0) /\ ret = null
    /\ hist = [call |-> "new", arg |-> null, wasActive |-> FALSE,
               reused |-> FALSE, disposed |-> FALSE]
    /\ em = NoEmitter /\ emHist = NoEmitterHist

\* the call; api keeps the argument next to the ValidationResult
Validate ==
    /\ ~api.called
    /\ api' = [input |-> api.spec, result |-> validateEffectSpec(api.spec),
               called |-> TRUE]
    /\ UNCHANGED <<poolVars, emitterVars, compositeVars, simVars, systemVars>>

ValidateNext == Validate

SpecValidate == ValidateInit /\ [][ValidateNext]_vars

(***************************************************************************)
(* Curve (src/index.js, curve part).  Keyframe times, the argument of      *)
(* evaluate and scalar values are in thousandths; a local or eased t and   *)
(* the result of evaluate are exact rationals.  Of the easings only        *)
(* 'linear' and 'step' are modelled.                                       *)
(***************************************************************************)
Keyframe(time, value, interpolation) ==
    [time |-> time, value |-> value, interpolation |-> interpolation]

\* Array.prototype.sort with (a, b) => a.time - b.time, which is stable: kf
\* goes behind every keyframe of sorted that is not later than it
InsertByTime(sorted, kf) ==
    LET n == Cardinality({i \in 1..Len(sorted) : sorted[i].time <= kf.time})
    IN  SubSeq(sorted, 1, n) \o <<kf>> \o SubSeq(sorted, n + 1, Len(sorted))

RECURSIVE SortByTime(_)
SortByTime(keyframes) ==
    IF Len(keyframes) = 0 THEN <<>>
    ELSE InsertByTime(SortByTime(SubSeq(keyframes, 1, Len(keyframes) - 1)),
                      keyframes[Len(keyframes)])

\* new Curve(keyframes)
Curve(keyframes) ==
    [threw |-> Len(keyframes) = 0, keyframes |-> SortByTime(keyframes)]

\* Math.max(0, Math.min(1, t)), and evaluate without it
ClampUnitNone(t) == t
ClampUnit(t) == IF t < 0 THEN 0 ELSE IF t > 1000 THEN 1000 ELSE t

\* Curve.applyEasing(t, type)
applyEasing(t, type) ==
    IF type = "step" THEN (IF 2 * t.n < t.d THEN Rat(0, 1) ELSE Rat(1, 1))
    ELSE t

\* Curve.interpolate(a, b, t) for numbers
interpolate(a, b, t) == Rat(a * t.d + (b - a) * t.n, t.d)

\* Curve.evaluate(t)
evaluate(curve, t0) ==
    LET t == ClampUnit(t0)
        keyframes == curve.keyframes
        length == Len(keyframes)
        found == {i \in 1..(length - 1) :
                     t >= keyframes[i].time /\ t <= keyframes[i + 1].time}
        leftIdx == IF found = {} THEN 1
                   ELSE CHOOSE i \in found : \A j \in found : i <= j
        rightIdx == IF found = {} THEN length ELSE leftIdx + 1
        left == keyframes[leftIdx]
        right == keyframes[rightIdx]
        localT == Rat(t - left.time, right.time - left.time)
        interpolation == IF left.interpolation = "" THEN "linear"
                         ELSE left.interpolation
        easedT == applyEasing(localT, interpolation)
    IN  IF t <= keyframes[1].time THEN Rat(keyframes[1].value, 1)
        ELSE IF t >= keyframes[length].time THEN Rat(keyframes[length].value, 1)
        ELSE interpolate(left.value, right.value, easedT)

\* the curve of the example, {0:0, 0.5:1, 1:0}, its keyframes out of order
ExampleKeyframes ==
    <<Keyframe(1000, 0, "linear"), Keyframe(0, 0, "linear"),
      Keyframe(500, 1000, "linear")>>

KeyframeLists ==
    {ExampleKeyframes,
     <<Keyframe(0, 0, ""), Keyframe(500, 1000, ""), Keyframe(1000, 0, "")>>,
     <<Keyframe(500, 700, "linear")>>,
     <<Keyframe(0, 300, "")>>,
     <<Keyframe(0, 1000, "linear"), Keyframe(1000, 0, "linear")>>,
     <<Keyframe(800, 900, "linear"), Keyframe(200, 100, "linear")>>,
     <<Keyframe(-500, 0, "linear"), Keyframe(1500, 200, "linear")>>,
     <<Keyframe(0, 0, "linear"), Keyframe(500, 1000, "linear"),
       Keyframe(500, 2000, "linear"), Keyframe(1000, 0, "linear")>>,
     <<Keyframe(0, 1000, "linear"), Keyframe(0, 2000, "linear"),
       Keyframe(1000, 0, "linear")>>,
     <<Keyframe(750, 300, "linear"), Keyframe(250, 0, "linear"),
       Keyframe(1000, 1000, "linear"), Keyframe(0, 500, "linear")>>,
     <<Keyframe(0, 0, "step"), Keyframe(1000, 1000, "linear")>>,
     <<Keyframe(0, 0, "linear"), Keyframe(400, 1000, "step"),
       Keyframe(1000, 0, "linear")>>}

EvaluateTimes == {-500, -1, 0, 100, 250, 500, 501, 750, 1000, 1001, 2000}

CurveInit ==
    /\ \E keyframes \in KeyframeLists :
          api = [called |-> FALSE, input |-> keyframes, curve |-> Curve(keyframes),
                 t |-> 0, result |-> Rat(0, 1)]
    /\ ps = NoSystems /\ psHist = NoSystemHist
    /\ sim = NoSim /\ simHist = NoSimHist
    /\ ce = NoComposite /\ scene = <<>> /\ ceHist = NoCompositeHist
    /\ pp = NewPool(0) /\ ret = null
    /\ hist = [call |-> "new", arg |-> null, wasActive |-> FALSE,
               reused |-> FALSE, disposed |-> FALSE]
    /\ em = NoEmitter /\ emHist = NoEmitterHist

\* curve.evaluate(t)
Evaluate ==
    /\ ~api.curve.threw
    /\ \E t \in EvaluateTimes :
          api' = [api EXCEPT !.called = TRUE, !.t = t,
                             !.result = evaluate(api.curve, t)]
    /\ UNCHANGED <<poolVars, emitterVars, compositeVars, simVars, systemVars>>

CurveNext == Evaluate

SpecCurve == CurveInit /\ [][CurveNext]_vars

(***************************************************************************)
(* Two SeededRNG: fresh is new SeededRNG(seed) and is only drawn from;     *)
(* other was constructed with another seed, is drawn from, and is then     *)
(* reset to seed.  freshOut and otherOut are the words next() returned,    *)
(* for other those since its reset.                                        *)
(***************************************************************************)
RngSeeds == {0, 1, -7, 65536, 123456789}

RngInit ==
    /\ \E seed \in RngSeeds, priorSeed \in RngSeeds :
          api = [called |-> FALSE, seed |-> seed, priorSeed |-> priorSeed,
                 fresh |-> SeededRNG(seed), other |-> SeededRNG(priorSeed),
                 prior |-> 0, freshOut |-> <<>>, otherOut |-> <<>>]
    /\ ps = NoSystems /\ psHist = NoSystemHist
    /\ sim = NoSim /\ simHist = NoSimHist
    /\ ce = NoComposite /\ scene = <<>> /\ ceHist = NoCompositeHist
    /\ pp = NewPool(0) /\ ret = null
    /\ hist = [call |-> "new", arg |-> null, wasActive |-> FALSE,
               reused |-> FALSE, disposed |-> FALSE]
    /\ em = NoEmitter /\ emHist = NoEmitterHist

\* fresh.next()
NextFresh ==
    /\ Len(api.freshOut) < MaxDraws
    /\ \E n \in {next(api.fresh)} :
          api' = [api EXCEPT !.fresh = n.rng, !.freshOut = Append(@, n.value)]
    /\ UNCHANGED <<poolVars, emitterVars, compositeVars, simVars, systemVars>>

\* other.next() before its reset
NextBefore ==
    /\ ~api.called /\ api.prior < MaxDraws
    /\ api' = [api EXCEPT !.other = next(@).rng, !.prior = @ + 1]
    /\ UNCHANGED <<poolVars, emitterVars, compositeVars, simVars, systemVars>>

\* other.reset(seed)
Reset ==
    /\ ~api.called
    /\ api' = [api EXCEPT !.other = reset(@, api.seed), !.called = TRUE]
    /\ UNCHANGED <<poolVars, emitterVars, compositeVars, simVars, systemVars>>

\* other.next() after its reset
NextAfter ==
    /\ api.called /\ Len(api.otherOut) < MaxDraws
    /\ \E n \in {next(api.other)} :
          api' = [api EXCEPT !.other = n.rng, !.otherOut = Append(@, n.value)]
    /\ UNCHANGED <<poolVars, emitterVars, compositeVars, simVars, systemVars>>

RngNext == NextFresh \/ NextBefore \/ Reset \/ NextAfter

SpecRng == RngInit /\ [][RngNext]_vars

(***************************************************************************)
(* One tick of the forces on one particle: ParticleSystem's force loop     *)
(* with a gravity and a drag force in either order, and EffectSimulator's  *)
(* applyPhysics with the same gravity and drag.  Velocities, strengths and *)
(* drag are in thousandths, deltaTime in milliseconds.                     *)
(***************************************************************************)
ForceVelocities == {<<0, 0, 0>>, <<0, 600, 800>>, <<300, -400, 0>>,
                    <<-1000, 0, 0>>, <<0, 500, 0>>}
GravityStrengths == {0, 1, 10}
DragStrengths == {0, 500, 1000}
ForceDts == {0, 16, 20, 33}

GravityForce(strength) == [type |-> "gravity", strength |-> strength * 1000]
DragForce(strength) == [type |-> "drag", strength |-> strength]

ForcesInit ==
    /\ \E velocity \in ForceVelocities, g \in GravityStrengths,
          drag \in DragStrengths :
          api = [called |-> FALSE, call |-> "new",
                 particle |-> [NewParticle EXCEPT !.alive = TRUE,
                                                  !.velocity = velocity],
                 gravity |-> g, drag |-> drag,
                 forces |-> <<>>, deltaTime |-> 0, after |-> NewParticle]
    /\ ps = NoSystems /\ psHist = NoSystemHist
    /\ sim = NoSim /\ simHist = NoSimHist
    /\ ce = NoComposite /\ scene = <<>> /\ ceHist = NoCompositeHist
    /\ pp = NewPool(0) /\ ret = null
    /\ hist = [call |-> "new", arg |-> null, wasActive |-> FALSE,
               reused |-> FALSE, disposed |-> FALSE]
    /\ em = NoEmitter /\ emHist = NoEmitterHist

\* ParticleSystem.updateParticles(deltaTime) on the particle, the two forces
\* having been added in either order
UpdateParticles ==
    \E deltaTime \in ForceDts,
       forces \in {<<GravityForce(api.gravity), DragForce(api.drag)>>,
                   <<DragForce(api.drag), GravityForce(api.gravity)>>} :
        /\ api.call = "new"
        /\ api' = [api EXCEPT !.called = TRUE, !.call = "updateParticles",
                               !.forces = forces, !.deltaTime = deltaTime,
                               !.after = applyForces(api.particle, forces, deltaTime)]
        /\ UNCHANGED <<poolVars, emitterVars, compositeVars, simVars, systemVars>>

\* EffectSimulator.applyPhysics(particle, deltaTime) on the particle
ApplyPhysics ==
    \E deltaTime \in ForceDts :
        /\ api.call = "new"
        /\ api' = [api EXCEPT
               !.called = TRUE, !.call = "applyPhysics", !.deltaTime = deltaTime,
               !.after = applyPhysics(
                   [spec |-> [physics |-> [gravity |-> <<0, -api.gravity, 0>>,
                                           drag |-> api.drag]]],
                   api.particle, deltaTime)]
        /\ UNCHANGED <<poolVars, emitterVars, compositeVars, simVars, systemVars>>

ForcesNext == UpdateParticles \/ ApplyPhysics

SpecForces == ForcesInit /\ [][ForcesNext]_vars

(***************************************************************************)
(* Claims about the ParticlePool (checked under SpecPool).                  *)
(***************************************************************************)

\* C1 (as stated): after any sequence of acquire, release, releaseAll, clear
\* and dispose calls, activeCount + availableCount = totalCapacity.
C1_SumIsCapacityAlways ==
    activeCount(pp) + availableCount(pp) = totalCapacity(pp)

\* C1 (amended): activeCount + availableCount = totalCapacity as long as
\* dispose() has not been called; dispose() empties both the active set and
\* the free list, and from then on the sum is only bounded by the capacity.
C1_SumIsCapacityUntilDispose ==
    /\ ~hist.disposed =>
           activeCount(pp) + availableCount(pp) = totalCapacity(pp)
    /\ hist.call = "dispose" => activeCount(pp) = 0 /\ availableCount(pp) = 0
    /\ activeCount(pp) + availableCount(pp) <= totalCapacity(pp)

C1_Witness ==
    /\ ~hist.disposed
    /\ hist.call = "release" /\ hist.wasActive
    /\ activeCount(pp) >= 1 /\ availableCount(pp) >= 1

\* C2: a pool never has more than capacity active particles; with capacity
\* particles active acquire() returns null and changes nothing; an acquire()
\* that directly follows the release of an active record returns that record.
C2_CapacityAndReuse ==
    /\ [](activeCount(pp) <= totalCapacity(pp))
    /\ [][hist'.call = "acquire" /\ activeCount(pp) = totalCapacity(pp)
            => ret' = null /\ pp' = pp]_vars
    /\ [][hist'.call = "acquire" /\ hist.call = "release" /\ hist.wasActive
            => ret' = hist.arg /\ InSeq(hist.arg, pp'.active)]_vars

C2_Witness ==
    /\ hist.call = "acquire"
    /\ hist.reused
    /\ totalCapacity(pp) >= 2
    /\ activeCount(pp) = totalCapacity(pp)

(***************************************************************************)
(* Claims about the EffectSimulator (checked under SpecSim).               *)
(***************************************************************************)

LayerIds == 1..Len(ce.layers)

\* layer i is enabled by its definition and no timeline event names it
Untargeted(i) ==
    /\ ce.definition.layers[i].enabled
    /\ \A k \in 1..Len(ce.timeline) : ce.timeline[k].layerName # ce.layers[i].name

\* this step is an update() call that got past the `active` check
Ticked == ce'.time # ce.time

\* C4: an enabled layer with start delay d and duration D that no timeline
\* event targets is Pending, its simulation not updated, after every tick with
\* elapsed < d; turns Active on the first tick with elapsed >= d, its
\* started-at set to that tick's elapsed time; turns Stopped on the first tick
\* with elapsed - started-at >= D.  With d = 0.5 s and D = 1.0 s it is Pending
\* at 0.4 s, Active at 0.6 s and Stopped at 1.6 s.
C4_LayerLifecycle ==
    /\ [](\A i \in LayerIds : Untargeted(i) =>
            LET l == ce.layers[i] IN
            /\ ce.time < l.startDelay =>
                 LayerPending(l) /\ l.system.time = 0 /\ i \notin ceHist.updated
            /\ ce.time > 0 /\ ce.time >= l.startDelay => ~LayerPending(l)
            /\ LayerActive(l) =>
                 l.startTime >= l.startDelay /\ ce.time - l.startTime < l.duration
            /\ l.startDelay = 500 /\ l.duration = 1000 =>
                 /\ ce.time = 400 => LayerPending(l)
                 /\ ce.time = 600 => LayerActive(l) /\ l.startTime = 600
                 /\ ce.time = 1600 /\ l.startTime = 600 => LayerStopped(l))
    /\ [][\A i \in LayerIds : Untargeted(i) /\ Ticked =>
            LET l == ce.layers[i]
                n == ce'.layers[i]
            IN
            /\ LayerPending(l) /\ ce'.time < l.startDelay => LayerPending(n)
            /\ LayerPending(l) /\ ce'.time >= l.startDelay =>
                 LayerActive(n) /\ n.startTime = ce'.time
            /\ LayerActive(l) /\ ce'.time - l.startTime < l.duration =>
                 /\ LayerActive(n) /\ n.startTime = l.startTime
                 /\ n.system.time = l.system.time + (ce'.time - ce.time)
            /\ LayerActive(l) /\ ce'.time - l.startTime >= l.duration =>
                 LayerStopped(n) /\ n.system = l.system]_vars

C4_Witness ==
    \E i \in LayerIds :
        /\ Untargeted(i)
        /\ ce.layers[i].startDelay = 500 /\ ce.layers[i].duration = 1000
        /\ ce.time = 1600 /\ ce.layers[i].startTime = 600
        /\ LayerStopped(ce.layers[i]) /\ ce.layers[i].system.time > 0

\* C5: on the first tick with elapsed >= movement.lifetime the composite is
\* marked inactive, and a child composite is instantiated from the onImpact
\* template at the current root position whenever the definition has one (and
\* none is created when it has none).
C5_CompletionSpawnsImpact ==
    [][/\ ce.active /\ Ticked /\ ce.movement.kind # "none"
       /\ ce.time < ce.movement.lifetime /\ ce'.time >= ce.movement.lifetime
       => /\ ~ce'.active
          /\ ce.definition.onImpact.kind # "none" =>
               \E i \in (Len(scene) + 1)..Len(scene') :
                   /\ scene'[i].definition = ce.definition.onImpact
                   /\ scene'[i].position = ce'.position
          /\ ce.definition.onImpact.kind = "none" =>
               \A i \in (Len(ceHist.spawned) + 1)..Len(ceHist'.spawned) :
                   ~ceHist'.spawned[i].onComplete]_vars

Count(seq, x) == Cardinality({j \in 1..Len(seq) : seq[j] = x})

\* C7: after every update tick of a Running composite every timeline event
\* with time <= elapsed has been dispatched exactly once, events with
\* time > elapsed have not been dispatched, and the dispatches are in
\* non-decreasing time order, in whatever order the definition lists the
\* events.
C7_TimelineDrainedInTimeOrder ==
    [][ce.active /\ Ticked =>
         LET done == ceHist'.dispatched IN
         /\ \A k \in 1..Len(ce.timeline) :
               Count(done, k) = IF ce.timeline[k].time <= ce'.time THEN 1 ELSE 0
         /\ \A a, b \in 1..Len(done) :
               a < b => ce.timeline[done[a]].time <= ce.timeline[done[b]].time]_vars

\* C8 (as stated): once a layer's duration has elapsed and it is Stopped, no
\* later tick updates its simulation, whatever timeline events fire.
C8_StoppedIsAbsorbing ==
    [][\A i \in LayerIds : i \in ceHist.expired /\ Ticked =>
          ce'.layers[i].system = ce.layers[i].system]_vars

\* C8 (amended): once a layer's duration has elapsed and it is Stopped, no
\* later tick updates its simulation and it stays Stopped, until an
\* enableLayer event that names it fires; disableLayer, emit and callback
\* events do not revive it.
C8_StoppedUntilEnableLayer ==
    [][\A i \in LayerIds : i \in ceHist.expired \ ceHist.reenabled /\ Ticked =>
          /\ ce'.layers[i].system = ce.layers[i].system
          /\ LayerStopped(ce.layers[i])
          /\ i \notin ceHist'.reenabled => LayerStopped(ce'.layers[i])]_vars

C8_Witness ==
    \E i \in LayerIds :
        /\ i \in ceHist.expired \ ceHist.reenabled
        /\ LayerStopped(ce.layers[i]) /\ ce.layers[i].system.time > 0
        /\ ce.time >= ce.layers[i].startTime + ce.layers[i].duration + 200
        /\ Len(ceHist.dispatched) > 0

\* C9: after dispose() further update(dt) calls have no effect: elapsed time
\* does not advance, the root does not move, no layer simulation is updated,
\* no timeline event fires and no child composite is spawned.
C9_UpdateAfterDisposeIsNoOp ==
    [][ceHist.disposed =>
         /\ ce'.time = ce.time
         /\ ce'.position = ce.position /\ ce'.rotation = ce.rotation
         /\ \A i \in LayerIds : ce'.layers[i] = ce.layers[i]
         /\ ceHist'.dispatched = ceHist.dispatched
         /\ ceHist'.spawned = ceHist.spawned /\ scene' = scene]_vars

(***************************************************************************)
(* Claims about the Emitter (checked under SpecEmitter).                    *)
(***************************************************************************)

Min(a, b) == IF a < b THEN a ELSE b
LastDt == psHist.dts[Len(psHist.dts)]
DeadSlots(sys) == Cardinality({i \in 1..Len(sys.particles) : ~sys.particles[i].alive})

\* the emission times n / rate, (n + 1000) / rate, ... of one emitter that
\* are not after elapsed
Due(t, elapsed) ==
    IF t.n > elapsed * t.d THEN 0
    ELSE (elapsed * t.d - t.n) \div OneSecond + 1

RECURSIVE SumDue(_, _, _)
SumDue(s, elapsed, idx) ==
    IF idx > Len(s.nextEmitTimes) THEN 0
    ELSE Due(s.nextEmitTimes[idx], elapsed) + SumDue(s, elapsed, idx + 1)

\* C11: in every tick the EffectSimulator emits min(due, free records), where
\* due counts the emission times that the tick's clamped dt reaches at the
\* emitters' rates, and moves every emitter's next emission time past the
\* clock, so that a dropped emission is not retried; the ParticleSystem
\* initialises min(floor(accumulator + rate * dt), dead slots) slots, leaves
\* the live ones alone and keeps only the fraction in the accumulator.
C11_DroppedEmissionsAreNotMadeUp ==
    [][psHist'.dts # psHist.dts =>
        LET s == sim[1]
            elapsed == s.elapsedTime + ClampDeltaTime(LastDt')
            acc == ps[1].emitter.accumulator + ps[1].emitter.rate.value * LastDt'
        IN  /\ psHist'.simEmitted =
                  Min(SumDue(s, elapsed, 1), s.pool.capacity - activeCount(s.pool))
            /\ \A idx \in 1..Len(s.nextEmitTimes) :
                  /\ sim'[1].nextEmitTimes[idx].n =
                        s.nextEmitTimes[idx].n
                        + Due(s.nextEmitTimes[idx], elapsed) * OneSecond
                  /\ Due(sim'[1].nextEmitTimes[idx], sim'[1].elapsedTime) = 0
            /\ activeCount(sim'[1].pool) <= sim'[1].pool.capacity
            /\ psHist'.psEmitted = Min(Floor(acc), DeadSlots(ps[1]))
            /\ ps'[1].emitter.accumulator = acc % OneSecond
            /\ Len(ps'[1].particles) = Len(ps[1].particles)
    ]_vars

\* a tick of each implementation that emits after emissions were dropped in
\* earlier ticks
C11_Witness ==
    /\ psHist.simDropped > psHist.simAttempts - psHist.simEmitted
    /\ psHist.simEmitted > 0
    /\ psHist.psDropped > psHist.psCount - psHist.psEmitted
    /\ psHist.psEmitted > 0

AllDts(dts, d) == \A k \in 1..Len(dts) : dts[k] = d
AliveSlots(sys) == Len(sys.particles) - DeadSlots(sys)

\* C12: a tick of dt releases a live particle exactly when the time it has
\* been ticked for reaches its lifetime L (ParticleSystem: age + dt >= L;
\* EffectSimulator: life - dt / L <= 0) and leaves it alive otherwise; with
\* L = 1.0 s and update(0.1) called k times, the one particle is alive for
\* k = 1..9 and dead for k = 10, in both implementations.
C12_DiesOnFirstTickPastLifetime ==
    [][psHist'.dts # psHist.dts =>
        LET d == LastDt' IN
        /\ \A i \in 1..Len(ps[1].particles) :
              LET q == ps[1].particles[i] IN
              q.alive =>
                 IF q.age + d >= q.lifetime THEN ~ps'[1].particles[i].alive
                 ELSE /\ ps'[1].particles[i].alive
                      /\ ps'[1].particles[i].age = q.age + d
        /\ \A i \in 1..Len(sim[1].particles) :
              LET id == sim[1].particles[i]
                  p == sim[1].pool.store[id]
              IN  (p.life.n * p.lifetime - d * p.life.d <= 0)
                     <=> ~InSeq(id, sim'[1].particles)
        /\ psHist'.scenario = 1 /\ AllDts(psHist'.dts, 100) =>
              /\ Len(psHist'.dts) < 10 =>
                    AliveSlots(ps'[1]) = 1 /\ activeCount(sim'[1].pool) = 1
              /\ Len(psHist'.dts) = 10 =>
                    AliveSlots(ps'[1]) = 0 /\ activeCount(sim'[1].pool) = 0
    ]_vars

\* a ParticleSystem's tick advanced its clock and its surviving particles'
\* ages by at most the ceiling
SystemStepWithin(before, after, ceiling) ==
    /\ after.time - before.time <= ceiling
    /\ \A i \in 1..Len(before.particles) :
          before.particles[i].alive /\ after.particles[i].alive =>
             after.particles[i].age - before.particles[i].age <= ceiling

\* C13: whatever dt the caller passes, one tick advances the simulated time
\* of the EffectSimulator, of the ParticleSystem and of the ParticleSystem
\* of a CompositeEffect layer by at most 0.033 s, and ages no particle by
\* more than that.
C13_TickAdvancesAtMostTheCeiling ==
    [][psHist'.dts # psHist.dts =>
        /\ sim'[1].elapsedTime - sim[1].elapsedTime <= MaxDeltaTime
        /\ \A i \in 1..Len(sim[1].particles) :
              LET id == sim[1].particles[i]
                  p == sim[1].pool.store[id]
                  q == sim'[1].pool.store[id]
              IN  InSeq(id, sim'[1].particles) =>
                     (p.life.n * q.life.d - q.life.n * p.life.d) * p.lifetime
                        <= MaxDeltaTime * p.life.d * q.life.d
        /\ SystemStepWithin(ps[1], ps'[1], MaxDeltaTime)
        /\ \A l \in 1..Len(ce.layers) :
              SystemStepWithin(ce.layers[l].system, ce'.layers[l].system,
                               MaxDeltaTime)
    ]_vars

(***************************************************************************)
(* Claims about the ParticleSystem's configuration and its randomness      *)
(* (checked under SpecSystem).                                             *)
(***************************************************************************)

\* the particles of the burst entries that fall due in a tick which moves the
\* system's clock from before to after: an entry is due on the first tick
\* whose time is at or past the entry's time
RECURSIVE BurstCount(_, _, _, _)
BurstCount(burst, k, before, after) ==
    IF k > Len(burst) THEN 0
    ELSE (IF (before < burst[k].time \/ before = 0) /\ burst[k].time <= after
          THEN burst[k].count ELSE 0)
         + BurstCount(burst, k + 1, before, after)

\* C14: a tick emits the rate accumulator's count plus the count of every
\* burst entry that falls due in it (as far as there are dead slots), each
\* entry once; with rate 0 and a burst of n at time 0 there are n live
\* particles after the first tick when the system has n slots.
C14_BurstEmitsOnce ==
    [][psHist'.dts # psHist.dts /\ psHist.definition.emitter.rate.type = "constant" =>
        \A i \in Instances :
            LET e == psHist.definition.emitter
                acc == ps[i].emitter.accumulator + e.rate.value * LastDt'
                due == BurstCount(e.burst, 1, ps[i].time, ps'[i].time)
            IN  /\ psHist'.emitted[i] = Min(Floor(acc) + due, DeadSlots(ps[i]))
                /\ /\ e.rate.value = 0
                   /\ Len(psHist.dts) = 0
                   /\ e.burst # <<>> /\ e.burst[1].time = 0
                   /\ e.burst[1].count <= Len(ps[i].particles)
                   => AliveSlots(ps'[i]) = e.burst[1].count
    ]_vars

\* a definition the claim calls a configuration error
Misconfigured(definition) ==
    \/ definition.emitter.shape \notin KnownShapes
    \/ \E f \in 1..Len(definition.forces) : definition.forces[f].type \notin KnownForces
    \/ /\ definition.overLifetime.scale.kind # "none"
       /\ definition.overLifetime.scale.keyframes = <<>>

\* C15: new ParticleSystem(definition) throws, and leaves no system behind,
\* when the definition names an unknown force type or an unknown emitter
\* shape or has an over-lifetime curve with zero keyframes.
C15_ConfigurationErrorIsRejected ==
    Misconfigured(psHist.definition) => psHist.threw /\ ps = NoSystems

\* C16: two ParticleSystems built from the same definition and ticked with
\* the same dt sequence have emitted the same numbers of particles and hold
\* the same particles (positions, velocities, lifetimes, ages).
C16_SameDefinitionSameRun ==
    ps # NoSystems =>
        /\ psHist.count[1] = psHist.count[2]
        /\ psHist.emitted[1] = psHist.emitted[2]
        /\ ps[1] = ps[2]

(***************************************************************************)
(* Claims about released records (checked under SpecPool).                 *)
(***************************************************************************)
AllZero(r) ==
    /\ ~r.alive
    /\ r.position = Zero3 /\ r.velocity = Zero3 /\ r.customData = Zero4
    /\ r.life.n = 0 /\ r.lifetime = 0

\* C17: a record that a call moves from the active set to the free list
\* (release, releaseAll, clear) has alive = false and position, velocity,
\* custom data, life and stored lifetime all zero afterwards.
C17_ReleasedRecordIsZeroed ==
    [][\A p \in 1..Len(pp.store) :
          InSeq(p, pp.active) /\ InSeq(p, pp'.pool) => AllZero(pp'.store[p])
    ]_vars

\* C18: release(p) of a record that is not in the active set (already in the
\* free list, or a record of another pool) leaves the pool, its counts, its
\* free list and every record as they were; so does the second of two
\* release(p) calls in a row.
C18_ReleaseOfInactiveIsNoOp ==
    [][hist'.call = "release" =>
          /\ ~hist'.wasActive => pp' = pp
          /\ hist.call = "release" /\ hist.arg = hist'.arg => pp' = pp
    ]_vars

\* a second release of a record while another record is still active
C18_Witness ==
    /\ hist.call = "release" /\ ~hist.wasActive
    /\ InSeq(hist.arg, pp.pool)
    /\ activeCount(pp) > 0

(***************************************************************************)
(* Claims about renderEffectToCanvas (checked under SpecRender).           *)
(***************************************************************************)

\* C19: for every quality setting, the spec that a successful
\* renderEffectToCanvas call hands to its renderer has every emitter's rate
\* at most MAX_EMIT_RATE and maxParticles in 1..MAX_PARTICLES, and the
\* renderer's pool capacity is at most MAX_PARTICLES.
C19_HandedSpecRespectsLimits ==
    api.called /\ ~api.result.threw =>
        /\ \A i \in 1..Len(api.result.spec.emitters) :
              LET e == api.result.spec.emitters[i] IN
              /\ e.rate <= MAX_EMIT_RATE
              /\ e.maxParticles >= 1 /\ e.maxParticles <= MAX_PARTICLES
        /\ api.result.capacity <= MAX_PARTICLES

(***************************************************************************)
(* Claims about the emitters of one EffectSimulator (checked under         *)
(* SpecSim).                                                               *)
(***************************************************************************)
AliveOf(s, idx) ==
    Cardinality({k \in 1..Len(s.particles) : s.emittedBy[s.particles[k]] = idx})

\* C20: after every tick, the live particles that emitter idx has emitted
\* number at most that emitter's maxParticles, for every emitter of the spec.
C20_PerEmitterCap ==
    \A i \in Instances :
        \A idx \in 1..Len(sim[i].spec.emitters) :
            AliveOf(sim[i], idx) <= sim[i].spec.emitters[idx].maxParticles

(***************************************************************************)
(* Claims about validateEffectSpec (checked under SpecValidate).           *)
(***************************************************************************)

\* the limits an accepted spec is within
WithinLimits(spec) ==
    /\ spec.isObject
    /\ Len(spec.emitters) >= 1 /\ Len(spec.emitters) <= MAX_EMITTERS
    /\ SumMaxParticles(spec.emitters) <= MAX_PARTICLES
    /\ \A i \in 1..Len(spec.emitters) :
          /\ spec.emitters[i].lifetime[1] <= spec.emitters[i].lifetime[2]
          /\ \A k \in 1..3 : spec.emitters[i].velocityRange.min[k]
                                <= spec.emitters[i].velocityRange.max[k]
    /\ \A i \in 2..Len(spec.colorRamp) : spec.colorRamp[i - 1] <= spec.colorRamp[i]

\* C21: validateEffectSpec never throws; a result with valid: true carries a
\* spec that has between 1 and MAX_EMITTERS emitters, a total maxParticles
\* of at most MAX_PARTICLES, every lifetime and velocityRange in order and
\* colour stops in non-decreasing t; every other result has valid: false
\* and at least one error message, the result for null among them.
C21_AcceptsOnlyWithinLimits ==
    api.called =>
        /\ ~api.result.threw
        /\ api.result.valid => WithinLimits(api.result.spec)
        /\ ~api.result.valid => Len(api.result.errors) >= 1
        /\ ~api.input.isObject => ~api.result.valid

\* an accepted spec at the edge of the limits: MAX_EMITTERS emitters and two
\* colour stops of equal t
C21_Witness ==
    /\ api.called /\ api.result.valid
    /\ Len(api.result.spec.emitters) = MAX_EMITTERS
    /\ api.input.colorRamp = <<500, 500>>

(***************************************************************************)
(* Claims about Curve (checked under SpecCurve).                           *)
(***************************************************************************)

Range(s) == {s[i] : i \in 1..Len(s)}

\* the rational r is n / d
RatIs(r, n, d) == r.d # 0 /\ r.n * d = n * r.d

\* keyframes is in time order and holds the keyframes of input
TimeSorted(keyframes, input) ==
    /\ \A i \in 1..(Len(keyframes) - 1) : keyframes[i].time <= keyframes[i + 1].time
    /\ Len(keyframes) = Len(input)
    /\ \A k \in Range(input) :
          Cardinality({i \in 1..Len(input) : input[i] = k})
             = Cardinality({i \in 1..Len(keyframes) : keyframes[i] = k})

\* C22: for scalar keyframes with linear interpolation, evaluate(t) is the
\* piecewise-linear interpolant of the time-sorted keyframes at t clamped to
\* [0,1]: the first keyframe's value at or before the first time, the last
\* keyframe's value at or after the last time, and between two keyframes the
\* value on the line through them (at a time that two keyframes share, the
\* value of one of them).  For {0:0, 0.5:1, 1:0} it is 0.5 at 0.25, 1 at 0.5
\* and 0 for every t < 0 or t > 1; with one keyframe it is that keyframe's
\* value for every t.
C22_EvaluateIsPiecewiseLinear ==
    (/\ api.called
     /\ \A k \in Range(api.input) : k.interpolation \in {"", "linear"})
    => LET keyframes == api.curve.keyframes
           length == Len(keyframes)
           t == IF api.t < 0 THEN 0 ELSE IF api.t > 1000 THEN 1000 ELSE api.t
           shared == {k \in Range(keyframes) :
                         /\ k.time = t
                         /\ \E i, j \in 1..length :
                               i # j /\ keyframes[i].time = t /\ keyframes[j].time = t}
       IN  /\ TimeSorted(keyframes, api.input)
           /\ shared # {} => \E k \in shared : RatIs(api.result, k.value, 1)
           /\ (shared = {} /\ t <= keyframes[1].time)
                 => RatIs(api.result, keyframes[1].value, 1)
           /\ (shared = {} /\ t >= keyframes[length].time)
                 => RatIs(api.result, keyframes[length].value, 1)
           /\ \A i \in 1..(length - 1) :
                 (/\ shared = {}
                  /\ keyframes[i].time <= t /\ t <= keyframes[i + 1].time)
                 => RatIs(api.result,
                          keyframes[i].value * (keyframes[i + 1].time - keyframes[i].time)
                            + (keyframes[i + 1].value - keyframes[i].value)
                                 * (t - keyframes[i].time),
                          keyframes[i + 1].time - keyframes[i].time)
           /\ api.input = ExampleKeyframes =>
                 /\ api.t = 250 => RatIs(api.result, 500, 1)
                 /\ api.t = 500 => RatIs(api.result, 1000, 1)
                 /\ (api.t < 0 \/ api.t > 1000) => RatIs(api.result, 0, 1)
           /\ length = 1 => RatIs(api.result, keyframes[1].value, 1)

\* the example curve, given out of order, evaluated at 0.25
C22_Witness ==
    /\ api.called /\ api.input = ExampleKeyframes /\ api.t = 250
    /\ api.result = Rat(250000, 500)

(***************************************************************************)
(* Claims about SeededRNG (checked under SpecRng).                         *)
(***************************************************************************)

\* C23: once a generator in any prior state has been reset to the seed s,
\* it is in the state of a new SeededRNG(s) that has made as many draws, and
\* the two have returned the same next() values draw for draw.
C23_ResetIsAsFresh ==
    api.called =>
        /\ \A i \in 1..Min(Len(api.freshOut), Len(api.otherOut)) :
              api.freshOut[i] = api.otherOut[i]
        /\ Len(api.freshOut) = Len(api.otherOut) => api.fresh = api.other

\* a generator of another seed that had made draws, reset, and drawn from as
\* often as the fresh one
C23_Witness ==
    /\ api.called /\ api.prior >= 1
    /\ SeededRNG(api.priorSeed) # SeededRNG(api.seed)
    /\ Len(api.otherOut) = MaxDraws /\ Len(api.freshOut) = MaxDraws

(***************************************************************************)
(* Claims about the particle list of an EffectSimulator (checked under     *)
(* SpecList).                                                              *)
(***************************************************************************)

\* C24: after every update(dt) with dt >= 0 and after clear(), the list of
\* getParticles() is the pool's active set: every listed particle is alive
\* with 0 < life <= 1, none is listed twice, the list is as long as
\* pool.activeCount, and no longer than the sum of the emitters'
\* maxParticles.
C24_ListIsActiveSet ==
    LET s == sim[1]
        listed == getParticles(s)
    IN  /\ \A i \in 1..Len(listed) :
              /\ listed[i].alive
              /\ listed[i].life.d > 0
              /\ listed[i].life.n > 0 /\ listed[i].life.n <= listed[i].life.d
        /\ \A i, j \in 1..Len(s.particles) : s.particles[i] = s.particles[j] => i = j
        /\ Range(s.particles) = Range(s.pool.active)
        /\ Len(listed) = activeCount(s.pool)
        /\ Len(listed) <= SumMaxParticles(s.spec.emitters)

\* a simulator that was cleared while it listed particles and has since
\* filled its pool again
C24_Witness ==
    /\ simHist.released >= 1 /\ simHist.call = "update"
    /\ Len(sim[1].particles) = SumMaxParticles(sim[1].spec.emitters)
    /\ availableCount(sim[1].pool) = 0

(***************************************************************************)
(* Claims about the completion of a CompositeEffect (checked under         *)
(* SpecComposite).                                                         *)
(***************************************************************************)

\* the children instantiated by onComplete() so far
ImpactChildren(h) == {i \in 1..Len(h.spawned) : h.spawned[i].onComplete}

\* C25: completion is one-shot and absorbing: a Completed composite never
\* becomes Running again, the onImpact child is instantiated at most once
\* over the composite's life, and an update(dt) of a Completed composite
\* leaves elapsed time, root position, layer states and the timeline index
\* unchanged.
C25_CompletionIsOneShot ==
    [][/\ ~ce.active => ~ce'.active
       /\ Cardinality(ImpactChildren(ceHist')) <= 1
       /\ (~ce.active /\ Ticked) =>
             /\ ce'.time = ce.time /\ ce'.position = ce.position
             /\ ce'.layers = ce.layers
             /\ ce'.timelineIndex = ce.timelineIndex]_vars

\* C26 (checked under SpecCompositeLive): a composite that has a movement
\* with a finite lifetime and whose layers all have finite durations, and
\* that keeps being updated with dt > 0, reaches a point from which
\* isActive() is false for good.
C26_EventuallyInactiveForGood ==
    (/\ ce.movement.kind # "none"
     /\ \A i \in 1..Len(ce.layers) : ce.layers[i].duration # Infinity)
    => <>[](~isActive(ce))

(***************************************************************************)
(* Claims about the emission schedule of an EffectSimulator (checked under *)
(* SpecList).                                                              *)
(***************************************************************************)

\* the emitParticle calls made for emitter idx so far: each adds one interval
\* to nextEmitTimes[idx], which starts at 0
EmitCalls(s, idx) == s.nextEmitTimes[idx].n \div OneSecond

RECURSIVE SumEmitCalls(_, _)
SumEmitCalls(s, idx) ==
    IF idx = 0 THEN 0 ELSE EmitCalls(s, idx) + SumEmitCalls(s, idx - 1)

\* C27: while the pool has not been exhausted (it holds a record for every
\* emitParticle call made so far), an emitter of constant rate r has emitted
\* exactly floor(r * T) particles after the simulated time T, and an emitter
\* of rate 0 has emitted none.
C27_ScheduleEmitsFloorRateTimesT ==
    LET s == sim[1] IN
    SumEmitCalls(s, Len(s.spec.emitters)) <= totalCapacity(s.pool) =>
        \A idx \in 1..Len(s.spec.emitters) :
            /\ EmitCalls(s, idx) = (s.spec.emitters[idx].rate * s.elapsedTime) \div OneSecond
            /\ s.spec.emitters[idx].rate = 0 => EmitCalls(s, idx) = 0

(***************************************************************************)
(* Claims about the forces of one tick (checked under SpecForces).         *)
(***************************************************************************)

\* what one force alone adds to the pre-tick velocity in one tick of the
\* ParticleSystem, and what gravity alone and drag alone add in applyPhysics
ForceOutput(force, particle, deltaTime) ==
    [k \in 1..3 |-> (calculate(force, particle)[k] * deltaTime) \div 1000]
GravityOutput(gravity, deltaTime) == <<0, -gravity * deltaTime, 0>>
DragOutput(drag, velocity, deltaTime) ==
    [k \in 1..3 |-> Damp(velocity, Damping(drag, deltaTime))[k] - velocity[k]]

\* C28 (ParticleSystem part): the velocity after the tick is the same for
\* both orders of the forces.
SystemOrderIndependent ==
    api.call = "updateParticles" =>
        api.after.velocity =
            applyForces(api.particle, <<api.forces[2], api.forces[1]>>,
                        api.deltaTime).velocity

\* equal to the last thousandth, which the rounding of a product may change
Near(a, b) == \A k \in 1..3 : Abs(a[k] - b[k]) <= 1

\* C28 (EffectSimulator part): the velocity after the tick is the pre-tick
\* velocity plus gravity's output plus drag's output, each computed from the
\* pre-tick velocity.
SimulatorSumsOutputs ==
    api.call = "applyPhysics" =>
        Near(api.after.velocity,
             Add3(Add3(api.particle.velocity,
                       GravityOutput(api.gravity, api.deltaTime)),
                  DragOutput(api.drag, api.particle.velocity, api.deltaTime)))

\* C28: within one tick every force is evaluated on the pre-tick particle
\* and the outputs are summed, so that the velocity after the tick does not
\* depend on the forces' order and drag does not see gravity's change, in
\* ParticleSystem.updateParticles and in EffectSimulator.applyPhysics.
C28_ForcesSeePreTickState ==
    SystemOrderIndependent /\ SimulatorSumsOutputs

(***************************************************************************)
(* Claims about exceptions of CompositeEffect.update (checked under        *)
(* SpecComposite).                                                         *)
(***************************************************************************)

\* C29: no exception crosses CompositeEffect.update: whether or not the root
\* object has a parent, update returns normally on every tick, the ticks of
\* an 'emit' timeline event and of the onImpact hand-off included.
C29_UpdateReturnsNormally ==
    ~ceHist.threw

============================================================================
